---------------------------- MODULE Spec2Model ----------------------------
(***************************************************************************)
(* A model of the font splitter of work-utils (src/font_splitter.py): the  *)
(* chunk partitioner, the unicode-range compressor and parser, the order   *)
(* merger and the split_font orchestration.                                *)
(*                                                                         *)
(* A character is modelled by its codepoint (ord/chr map one to the other  *)
(* for every valid codepoint); a text is a sequence of one-character       *)
(* strings.                                                                *)
(***************************************************************************)
EXTENDS Integers, Sequences, FiniteSets, TLC

VARIABLES
    pc,             \* position of the operation under way
    chars,          \* split_characters_into_chunks: argument chars
    num_chunks,     \* split_characters_into_chunks: argument num_chunks
    chunks_ret,     \* split_characters_into_chunks: the list returned
    codepoints,     \* codepoints_to_unicode_ranges: argument codepoints
    ranges,         \* codepoints_to_unicode_ranges: the tokens returned
    text,           \* parse_unicode_ranges_from_text: argument text
    parsed,         \* parse_unicode_ranges_from_text: the codepoints returned
    range_items,    \* the elements (indices of RangeItems, 0: a new block) text is made of
    order_file,     \* parse_unicode_order_file: the file at file_path
    order_chars,    \* parse_unicode_order_file: the characters returned
    orders,         \* merge_orders_keep_first: the arguments *orders
    merged,         \* merge_orders_keep_first(*orders)
    merged_twice,   \* merge_orders_keep_first(*orders, *orders)
    input_font_exists,  \* split_font: os.path.exists(input_font_path)
    font_chars,         \* split_font: what analyze_font_characters finds in the font
    preferred_order,    \* split_font: argument preferred_order (None: empty)
    arg_num_chunks,     \* split_font: argument num_chunks
    chars_per_chunk,    \* split_font: argument chars_per_chunk (None: 0)
    available_chars,    \* split_font: available_chars
    char_chunks,        \* split_font: char_chunks
    subset_i,           \* split_font: i, the 1-based index of the chunk subsetted next
    success_count,      \* split_font: success_count
    mapping,            \* split_font: the chunks written to the mapping file
    ret,                \* split_font: the value returned
    attempted,          \* split_font: the indices i the loop body was entered with
    created_chunks,     \* split_font: the indices i for which create_font_subset gave True
    io_before_loop,     \* split_font: the file-system and font operations done before the loop
    subset_info_list,   \* split_font (src/src) and font_trans: subset_info_list
    corpus,         \* build_order_from_corpus: the files of argument paths
    corpus_order,   \* build_order_from_corpus: the list returned
    args,           \* main: the parsed command line (sources as their contents)
    exit_status,    \* main: the exit status of the process (-1: still running)
    split_calls,    \* main: the number of calls of split_font made
    is_processing,  \* Api: self.is_processing
    current_task,   \* Api: self.current_task ("" for None)
    api_threads,    \* Api: the calls under way, one per thread: method, position, result
    current_progress,   \* FontConverterAPI: self.current_progress
    input_flavor,       \* start_conversion: the flavor of the font file at input_path
    weights,            \* start_conversion: argument weights
    output_formats,     \* start_conversion: argument output_formats
    weight_i,           \* start_conversion: position of the loop over weights
    format_i,           \* start_conversion: position of the loop over output_formats
    font_to_convert,    \* start_conversion: the font object (its flavor)
    converted_paths     \* start_conversion: the files saved, each with the flavor it was encoded in

vars == <<pc, chars, num_chunks, chunks_ret, codepoints, ranges, text, parsed, range_items,
          order_file, order_chars,
          orders, merged, merged_twice, input_font_exists, font_chars,
          preferred_order, arg_num_chunks, chars_per_chunk, available_chars,
          char_chunks, subset_i, success_count, mapping, ret, attempted,
          created_chunks, subset_info_list, io_before_loop,
          corpus, corpus_order, args, exit_status, split_calls,
          is_processing, current_task, api_threads, current_progress,
          input_flavor, weights, output_formats, weight_i, format_i, font_to_convert,
          converted_paths>>
partitionVars == <<chars, num_chunks, chunks_ret>>
rangeVars == <<codepoints, ranges, text, parsed, range_items, order_file, order_chars>>
mergeVars == <<orders, merged, merged_twice>>
splitArgs == <<input_font_exists, font_chars, preferred_order, arg_num_chunks,
               chars_per_chunk>>
splitVars == <<splitArgs, available_chars, char_chunks, subset_i, success_count, mapping, ret,
               attempted, created_chunks, subset_info_list, io_before_loop>>
corpusVars == <<corpus, corpus_order>>
mainVars == <<args, exit_status, split_calls>>
apiVars == <<is_processing, current_task, api_threads>>
progressVars == <<current_progress>>
convertVars == <<input_flavor, weights, output_formats, weight_i, format_i, font_to_convert,
                 converted_paths>>
guiVars == <<apiVars, progressVars, convertVars>>
\* What an operation of one component leaves alone: the other components.
notPartition == <<rangeVars, mergeVars, splitVars, corpusVars, mainVars, guiVars>>
notRanges == <<partitionVars, mergeVars, splitVars, corpusVars, mainVars, guiVars>>
notMerge == <<partitionVars, rangeVars, splitVars, corpusVars, mainVars, guiVars>>
notSplit == <<partitionVars, rangeVars, mergeVars, corpusVars, mainVars, guiVars>>
notCorpus == <<partitionVars, rangeVars, mergeVars, splitVars, mainVars, guiVars>>
notMain == <<partitionVars, rangeVars, mergeVars, corpusVars, guiVars>>

(***************************************************************************)
(* Bounds of the model                                                     *)
(***************************************************************************)
MaxLen == 5         \* longest character list given to the partitioner
MaxN == 10          \* largest chunk count requested
MaxNeg == 2         \* chunk counts from -MaxNeg are tried
MaxCps == 4         \* longest codepoint list given to the range compressor
MaxOrders == 2      \* most sequences given to the merger
MaxOrderLen == 2    \* longest sequence given to the merger
MaxPreferred == 4   \* longest preferred_order given to split_font
MaxSplitChunks == 3 \* largest num_chunks given to split_font
MaxPerChunk == 3    \* largest chars_per_chunk given to split_font
MaxItems == 3       \* most elements of a unicode-range text given to the parser
MaxCorpusLen == 5   \* most symbols (characters, file ends, read failures) of a corpus
MaxSources == 2     \* most order-source options on the command line of main
MaxWeights == 2     \* longest list of weights given to start_conversion
MaxFormats == 2     \* longest list of output formats given to start_conversion
NumThreads == 3     \* concurrent calls of the GUI Api
PresetRangeLen == 2 \* the codepoints kept of every range of a preset block

\* The characters the partitioner is given: 'A', 'B', U+4E00.
PartAlphabet == {65, 66, 19968}

RECURSIVE SeqsUpTo(_, _)
SeqsUpTo(S, n) ==
    IF n = 0 THEN {<<>>}
    ELSE LET shorter == SeqsUpTo(S, n - 1)
         IN  shorter \cup {Append(s, x) : s \in {t \in shorter : Len(t) = n - 1}, x \in S}

Min(a, b) == IF a < b THEN a ELSE b
Max(a, b) == IF a > b THEN a ELSE b

RECURSIVE Concat(_)
Concat(ss) == IF ss = <<>> THEN <<>> ELSE Head(ss) \o Concat(Tail(ss))

Range(s) == {s[k] : k \in DOMAIN s}

\* The slice taken from the start of the list: the offset a forgotten.
SliceFromStart(s, a, b) == SubSeq(s, 1, Min(b - a, Len(s)))

\* Python's s[a:b] for 0 <= a <= b: the slice is clamped to the list.
Slice(s, a, b) == SubSeq(s, Min(a, Len(s)) + 1, Min(b, Len(s)))

(***************************************************************************)
(* split_characters_into_chunks                                            *)
(***************************************************************************)
\* An off-by-one in the remainder test.
ChunkSizeOffByOne(i, base, rem) == base + (IF i <= rem THEN 1 ELSE 0)

\* "size = base + (1 if i < rem else 0)"
ChunkSize(i, base, rem) == base + (IF i < rem THEN 1 ELSE 0)

\* The "for i in range(num_chunks)" loop; i and idx as in the source.
RECURSIVE ChunkLoop(_, _, _, _, _, _)
ChunkLoop(cs, n, base, rem, i, idx) ==
    IF i >= n THEN <<>>
    ELSE LET size == ChunkSize(i, base, rem)
         IN  IF size = 0
             THEN <<(<<>>)>> \o ChunkLoop(cs, n, base, rem, i + 1, idx)
             ELSE <<Slice(cs, idx, idx + size)>>
                      \o ChunkLoop(cs, n, base, rem, i + 1, idx + size)

\* "while chunks and not chunks[-1]: chunks.pop()"
RECURSIVE TrimTrailingEmpty(_)
TrimTrailingEmpty(chunks) ==
    IF chunks # <<>> /\ chunks[Len(chunks)] = <<>>
    THEN TrimTrailingEmpty(SubSeq(chunks, 1, Len(chunks) - 1))
    ELSE chunks

\* The whole list returned as one chunk.
OneChunkOfAll(cs) == IF cs = <<>> THEN <<>> ELSE <<cs>>

\* The degenerate branch returns "[[char] for char in chars]".
SingletonChunks(cs) == [k \in 1..Len(cs) |-> <<cs[k]>>]

\* The remainder all given to the last chunk.
EvenChunksRemainderLast(cs, n) ==
    LET base == Len(cs) \div n
    IN  [k \in 1..n |-> IF k < n THEN Slice(cs, (k - 1) * base, k * base)
                                 ELSE Slice(cs, (n - 1) * base, Len(cs))]

\* The normal case: lines 208-225.
EvenChunks(cs, n) ==
    LET total == Len(cs)
        base  == total \div n
        rem   == total % n
    IN  TrimTrailingEmpty(ChunkLoop(cs, n, base, rem, 0, 0))

\* Neither the degenerate branch nor the trimming of trailing empty chunks.
split_chars_untrimmed(cs, n) ==
    IF n <= 0 THEN [raised |-> TRUE, chunks |-> <<>>]
    ELSE [raised |-> FALSE,
          chunks |-> ChunkLoop(cs, n, Len(cs) \div n, Len(cs) % n, 0, 0)]

\* "if num_chunks < 0" in place of "<= 0".
split_chars_zero_allowed(cs, n) ==
    IF n < 0 THEN [raised |-> TRUE, chunks |-> <<>>]
    ELSE IF n >= Len(cs) THEN [raised |-> FALSE, chunks |-> SingletonChunks(cs)]
    ELSE [raised |-> FALSE, chunks |-> EvenChunks(cs, n)]

\* raised: the ValueError of line 202; chunks: the list returned otherwise.
split_characters_into_chunks(cs, n) ==
    IF n <= 0 THEN [raised |-> TRUE, chunks |-> <<>>]
    ELSE IF n >= Len(cs) THEN [raised |-> FALSE, chunks |-> SingletonChunks(cs)]
    ELSE [raised |-> FALSE, chunks |-> EvenChunks(cs, n)]

IdleCorpus == corpus = <<>> /\ corpus_order = <<>>
\* The command line without any order source.
NoSources ==
    [unicode_order_file |-> <<>>, character_list_file |-> <<>>, include_blocks |-> <<>>,
     auto_order_from_corpus |-> <<>>]
IdleMain ==
    args = [language |-> "", sources |-> NoSources] /\ exit_status = 0 - 1 /\ split_calls = 0
\* The state of FontConverterAPI.__init__, src/src/font_trans.py lines 29-42.
InitialProgress == [is_running |-> FALSE, step |-> "", current |-> 0, total |-> 0]
IdleApi == is_processing = FALSE /\ current_task = "" /\ api_threads = <<>>
IdleProgress == current_progress = InitialProgress
IdleConvert ==
    /\ input_flavor = "none" /\ weights = <<>> /\ output_formats = <<>>
    /\ weight_i = 0 /\ format_i = 0
    /\ font_to_convert = [flavor |-> "none"] /\ converted_paths = <<>>
IdleGui == IdleApi /\ IdleProgress /\ IdleConvert
IdlePartition == chars = <<>> /\ num_chunks = 0 /\ chunks_ret = <<>>
IdleRanges ==
    /\ codepoints = <<>> /\ ranges = <<>> /\ text = <<>> /\ parsed = <<>> /\ range_items = <<>>
    /\ order_file = [readable |-> FALSE, content |-> <<>>] /\ order_chars = <<>>
IdleMerge == orders = <<>> /\ merged = <<>> /\ merged_twice = <<>>
IdleSplit ==
    /\ input_font_exists = FALSE /\ font_chars = {} /\ preferred_order = <<>>
    /\ arg_num_chunks = 0 /\ chars_per_chunk = 0
    /\ available_chars = <<>> /\ char_chunks = <<>> /\ subset_i = 0
    /\ success_count = 0 /\ mapping = <<>> /\ ret = FALSE
    /\ attempted = <<>> /\ created_chunks = <<>> /\ subset_info_list = <<>>
    /\ io_before_loop = <<>>

InitPartition ==
    /\ IdleRanges /\ IdleMerge /\ IdleSplit /\ IdleCorpus /\ IdleMain /\ IdleGui
    /\ pc = "call_split_chars"
    /\ chars \in SeqsUpTo(PartAlphabet, MaxLen)
    /\ num_chunks \in (0 - MaxNeg)..MaxN
    /\ chunks_ret = <<>>

\* One call of split_characters_into_chunks(chars, num_chunks): it returns a
\* list (chunks_ret) or raises and returns nothing.
SplitCharactersIntoChunks ==
    /\ pc = "call_split_chars"
    /\ LET r == split_characters_into_chunks(chars, num_chunks)
       IN  /\ pc' = IF r.raised THEN "raised_split_chars" ELSE "returned_split_chars"
           /\ chunks_ret' = IF r.raised THEN chunks_ret ELSE r.chunks
    /\ UNCHANGED <<chars, num_chunks, notPartition>>

NextPartition == SplitCharactersIntoChunks

SpecPartition == InitPartition /\ [][NextPartition]_vars

(***************************************************************************)
(* Claims about split_characters_into_chunks (under SpecPartition)         *)
(***************************************************************************)
Returned == pc = "returned_split_chars"
Raised == pc = "raised_split_chars"

Abs(x) == IF x < 0 THEN 0 - x ELSE x

\* C1: for every chars and every n >= 1, the chunks returned, concatenated in
\* order, are exactly chars (normal and degenerate case alike).
C1_ConcatIsChars ==
    (Returned /\ num_chunks >= 1) => Concat(chunks_ret) = chars

\* A normal-case call with an uneven split has returned.
C1_Witness ==
    /\ Returned
    /\ 1 < num_chunks /\ num_chunks < Len(chars)
    /\ Len(chars) % num_chunks # 0
    /\ Len(chunks_ret) > 1

\* C2: for non-empty chars and 1 <= n <= len(chars), at most n chunks are
\* returned and the sizes of any two of them differ by at most 1.
C2_AtMostNBalanced ==
    (Returned /\ chars # <<>> /\ 1 <= num_chunks /\ num_chunks <= Len(chars))
        => /\ Len(chunks_ret) <= num_chunks
           /\ \A a, b \in DOMAIN chunks_ret :
                  Abs(Len(chunks_ret[a]) - Len(chunks_ret[b])) <= 1

\* Two returned chunks of different sizes.
C2_Witness ==
    /\ Returned /\ chars # <<>>
    /\ 1 <= num_chunks /\ num_chunks <= Len(chars)
    /\ \E a, b \in DOMAIN chunks_ret : Len(chunks_ret[a]) = Len(chunks_ret[b]) + 1

\* Where chunk k (1-based) starts in chars, and its size, when the first rem
\* chunks have base + 1 characters and the others base.
ExpectedStart(k, base, rem) == (k - 1) * base + Min(k - 1, rem)
ExpectedSize(k, base, rem) == IF k <= rem THEN base + 1 ELSE base

\* C3: in the normal case 1 <= n < len(chars) exactly n non-empty contiguous
\* chunks are returned; chunks 1..remainder have base + 1 characters and the
\* others base, with base = len // n and remainder = len % n.
C3_NormalCaseSizes ==
    (Returned /\ 1 <= num_chunks /\ num_chunks < Len(chars))
        => LET base == Len(chars) \div num_chunks
               rem  == Len(chars) % num_chunks
           IN  /\ Len(chunks_ret) = num_chunks
               /\ \A k \in 1..num_chunks :
                      /\ chunks_ret[k] # <<>>
                      /\ Len(chunks_ret[k]) = ExpectedSize(k, base, rem)
                      /\ chunks_ret[k] =
                             SubSeq(chars, ExpectedStart(k, base, rem) + 1,
                                    ExpectedStart(k, base, rem) + ExpectedSize(k, base, rem))

\* 5 characters in 3 chunks: sizes 2, 2, 1.
C3_Witness ==
    /\ Returned /\ Len(chars) = 5 /\ num_chunks = 3
    /\ Len(chunks_ret) = 3
    /\ Len(chunks_ret[1]) = 2 /\ Len(chunks_ret[2]) = 2 /\ Len(chunks_ret[3]) = 1

\* C4: in the degenerate case n >= len(chars), n >= 1, exactly len(chars)
\* chunks are returned, each one character, in input order (none for an
\* empty chars).
C4_DegenerateSingletons ==
    (Returned /\ num_chunks >= 1 /\ num_chunks >= Len(chars))
        => /\ Len(chunks_ret) = Len(chars)
           /\ \A k \in DOMAIN chunks_ret :
                  Len(chunks_ret[k]) = 1 /\ chunks_ret[k][1] = chars[k]

\* 3 characters with n = 10 gave 3 singleton chunks.
C4_Witness ==
    /\ Returned /\ chars = <<65, 66, 19968>> /\ num_chunks = 10
    /\ chunks_ret = << <<65>>, <<66>>, <<19968>> >>

\* C5, as claimed: some chars and n >= 1 with len(chars) < n give more than n
\* chunks (an existence claim: the calls are those of the model's inputs).
C5_SomeCallReturnsMoreThanN ==
    \E cs \in SeqsUpTo(PartAlphabet, MaxLen), n \in 1..MaxN :
        /\ pc \in {"call_split_chars", "returned_split_chars", "raised_split_chars"}
        /\ Len(cs) < n
        /\ ~split_characters_into_chunks(cs, n).raised
        /\ Len(split_characters_into_chunks(cs, n).chunks) > n

\* C5, amended: no call with n >= 1 returns more than n chunks; with fewer
\* characters than requested chunks it returns len(chars) chunks, fewer than n.
C5_NeverMoreThanN ==
    (Returned /\ num_chunks >= 1)
        => /\ Len(chunks_ret) <= num_chunks
           /\ Len(chars) < num_chunks
                  => Len(chunks_ret) = Len(chars) /\ Len(chunks_ret) < num_chunks

\* Fewer characters than requested chunks, and fewer chunks returned.
C5_Witness ==
    /\ Returned /\ num_chunks >= 1
    /\ 0 < Len(chars) /\ Len(chars) < num_chunks
    /\ Len(chunks_ret) < num_chunks

\* C6: for every chars and every n <= 0 the call raises (ValueError) and
\* returns no list, also when n >= len(chars).
C6_NonPositiveRaises ==
    (pc # "call_split_chars" /\ num_chunks <= 0) => (Raised /\ chunks_ret = <<>>)

\* n = 0 with an empty chars (so n >= len(chars)) has raised.
C6_Witness ==
    Raised /\ num_chunks = 0 /\ chars = <<>>

(***************************************************************************)
(* codepoints_to_unicode_ranges                                            *)
(***************************************************************************)
HexDigitsLower ==
    <<"0", "1", "2", "3", "4", "5", "6", "7", "8", "9", "a", "b", "c", "d", "e", "f">>

\* The format "{n:x}" for n >= 0: lowercase hex digits, no padding.
RECURSIVE ToHex(_)
ToHex(n) ==
    IF n < 16 THEN <<HexDigitsLower[n + 1]>>
    ELSE ToHex(n \div 16) \o <<HexDigitsLower[(n % 16) + 1]>>

\* The format "{n:X}": uppercase digits.
HexDigitsUpper ==
    <<"0", "1", "2", "3", "4", "5", "6", "7", "8", "9", "A", "B", "C", "D", "E", "F">>

RECURSIVE ToHexUpper(_)
ToHexUpper(n) ==
    IF n < 16 THEN <<HexDigitsUpper[n + 1]>>
    ELSE ToHexUpper(n \div 16) \o <<HexDigitsUpper[(n % 16) + 1]>>

FormatRangeUpper(start, prev) ==
    IF start = prev THEN <<"U", "+">> \o ToHexUpper(start)
    ELSE <<"U", "+">> \o ToHexUpper(start) \o <<"-">> \o ToHexUpper(prev)

\* f"U+{start:x}" when start == prev, else f"U+{start:x}-{prev:x}"
FormatRange(start, prev) ==
    IF start = prev THEN <<"U", "+">> \o ToHex(start)
    ELSE <<"U", "+">> \o ToHex(start) \o <<"-">> \o ToHex(prev)

\* The loop "for cp in cps[1:]" and the last range after it.
RECURSIVE RangeLoop(_, _, _)
RangeLoop(rest, start, prev) ==
    IF rest = <<>> THEN <<FormatRange(start, prev)>>
    ELSE LET cp == Head(rest)
         IN  IF cp = prev + 1 THEN RangeLoop(Tail(rest), start, cp)
             ELSE <<FormatRange(start, prev)>> \o RangeLoop(Tail(rest), cp, cp)

CompressRuns(cps) ==
    IF cps = <<>> THEN <<>> ELSE RangeLoop(Tail(cps), cps[1], cps[1])

RECURSIVE InsertSorted(_, _)
InsertSorted(s, x) ==
    IF s = <<>> THEN <<x>>
    ELSE IF x <= Head(s) THEN <<x>> \o s
    ELSE <<Head(s)>> \o InsertSorted(Tail(s), x)

RECURSIVE Sorted(_)
Sorted(s) == IF s = <<>> THEN <<>> ELSE InsertSorted(Sorted(Tail(s)), Head(s))

\* The codepoints sorted before they are compressed ("cps = sorted(codepoints)").
codepoints_to_unicode_ranges_sorted(cps) == CompressRuns(Sorted(cps))

codepoints_to_unicode_ranges(cps) == CompressRuns(cps)

(***************************************************************************)
(* parse_unicode_ranges_from_text                                          *)
(***************************************************************************)
\* Whitespace (the regular expression's \s, str.strip) among the characters
\* of the model's texts.
IsSpace(c) == c \in {" ", "\t", "\n", "\r"}

IsHexDigit(c) ==
    c \in {"0", "1", "2", "3", "4", "5", "6", "7", "8", "9",
           "a", "b", "c", "d", "e", "f", "A", "B", "C", "D", "E", "F"}

HexDigitValue(c) ==
    CASE c = "0" -> 0 [] c = "1" -> 1 [] c = "2" -> 2 [] c = "3" -> 3
      [] c = "4" -> 4 [] c = "5" -> 5 [] c = "6" -> 6 [] c = "7" -> 7
      [] c = "8" -> 8 [] c = "9" -> 9
      [] c \in {"a", "A"} -> 10 [] c \in {"b", "B"} -> 11
      [] c \in {"c", "C"} -> 12 [] c \in {"d", "D"} -> 13
      [] c \in {"e", "E"} -> 14 [] c \in {"f", "F"} -> 15

\* int(hex, 16)
RECURSIVE HexToInt(_)
HexToInt(h) ==
    IF h = <<>> THEN 0
    ELSE 16 * HexToInt(SubSeq(h, 1, Len(h) - 1)) + HexDigitValue(h[Len(h)])

\* The keyword of the pattern, matched with re.IGNORECASE.
Keyword == <<"u", "n", "i", "c", "o", "d", "e", "-", "r", "a", "n", "g", "e">>

ToLower(c) ==
    CASE c = "U" -> "u" [] c = "N" -> "n" [] c = "I" -> "i" [] c = "C" -> "c"
      [] c = "O" -> "o" [] c = "D" -> "d" [] c = "E" -> "e" [] c = "R" -> "r"
      [] c = "A" -> "a" [] c = "G" -> "g" [] OTHER -> c

\* The first position >= i of s that holds no whitespace (Len(s) + 1 if none).
RECURSIVE SkipSpaces(_, _)
SkipSpaces(s, i) ==
    IF i <= Len(s) /\ IsSpace(s[i]) THEN SkipSpaces(s, i + 1) ELSE i

\* The first position >= i of s that holds c (Len(s) + 1 if none).
RECURSIVE FindChar(_, _, _)
FindChar(s, c, i) ==
    IF i > Len(s) \/ s[i] = c THEN i ELSE FindChar(s, c, i + 1)

\* A match of r"unicode-range\s*:\s*([^;]+);" that starts at position i of s:
\* ok, the captured group, and the position of the closing ";".
MatchAt(s, i) ==
    LET noMatch == [ok |-> FALSE, group |-> <<>>, end |-> i]
        kwEnd   == i + Len(Keyword) - 1
    IN  IF kwEnd > Len(s) \/ \E k \in 1..Len(Keyword) : ToLower(s[i + k - 1]) # Keyword[k]
        THEN noMatch
        ELSE LET colon == SkipSpaces(s, kwEnd + 1)
             IN  IF colon > Len(s) \/ s[colon] # ":" THEN noMatch
                 ELSE LET first == SkipSpaces(s, colon + 1)
                          semi  == FindChar(s, ";", first)
                      IN  IF semi > Len(s) THEN noMatch
                          ELSE IF semi > first
                               THEN [ok |-> TRUE, group |-> SubSeq(s, first, semi - 1),
                                     end |-> semi]
                          \* "\s*" gives one whitespace character back to "[^;]+"
                          ELSE IF first > colon + 1
                               THEN [ok |-> TRUE, group |-> SubSeq(s, first - 1, first - 1),
                                     end |-> semi]
                          ELSE noMatch

\* re.finditer: the captured groups of the non-overlapping matches, left to right.
RECURSIVE FindBlocks(_, _)
FindBlocks(s, i) ==
    IF i > Len(s) THEN <<>>
    ELSE LET m == MatchAt(s, i)
         IN  IF m.ok THEN <<m.group>> \o FindBlocks(s, m.end + 1)
             ELSE FindBlocks(s, i + 1)

\* The first position j >= i with s[j..j+1] = "*/" (Len(s) + 1 if none).
RECURSIVE FindCommentEnd(_, _)
FindCommentEnd(s, i) ==
    IF i + 1 > Len(s) THEN Len(s) + 1
    ELSE IF s[i] = "*" /\ s[i + 1] = "/" THEN i
    ELSE FindCommentEnd(s, i + 1)

\* re.sub(r"/\*.*?\*/", "", s, flags=re.DOTALL)
RECURSIVE StripComments(_, _)
StripComments(s, i) ==
    IF i > Len(s) THEN <<>>
    ELSE IF i + 1 <= Len(s) /\ s[i] = "/" /\ s[i + 1] = "*"
              /\ FindCommentEnd(s, i + 2) <= Len(s)
         THEN StripComments(s, FindCommentEnd(s, i + 2) + 2)
         ELSE <<s[i]>> \o StripComments(s, i + 1)

\* s.split(',')
RECURSIVE SplitComma(_, _)
SplitComma(s, i) ==
    LET comma == FindChar(s, ",", i)
    IN  IF comma > Len(s) THEN <<SubSeq(s, i, Len(s))>>
        ELSE <<SubSeq(s, i, comma - 1)>> \o SplitComma(s, comma + 1)

\* The last position <= i of s that holds no whitespace (0 if none).
RECURSIVE SkipSpacesBack(_, _)
SkipSpacesBack(s, i) ==
    IF i >= 1 /\ IsSpace(s[i]) THEN SkipSpacesBack(s, i - 1) ELSE i

\* item.strip()
Strip(s) == SubSeq(s, SkipSpaces(s, 1), SkipSpacesBack(s, Len(s)))

\* At most n hex digits, read from position i of s.
RECURSIVE TakeHexUpTo(_, _, _)
TakeHexUpTo(s, i, n) ==
    IF n = 0 \/ i > Len(s) \/ ~IsHexDigit(s[i]) THEN <<>>
    ELSE <<s[i]>> \o TakeHexUpTo(s, i + 1, n - 1)

\* The pattern written "[0-9A-Fa-f]{1,4}": at most four hex digits.
TakeHex4(s, i) == TakeHexUpTo(s, i, 4)

\* The hex digits that "[0-9A-Fa-f]{1,6}" takes from position i of s (greedy).
TakeHex(s, i) == TakeHexUpTo(s, i, 6)

\* re.match(r"U\+([0-9A-Fa-f]{1,6})(?:-([0-9A-Fa-f]{1,6}))?", token): ok,
\* group 1 and group 2 (empty when the optional part did not match).
MatchToken(token) ==
    IF Len(token) < 3 \/ token[1] # "U" \/ token[2] # "+" \/ TakeHex(token, 3) = <<>>
    THEN [ok |-> FALSE, start_hex |-> <<>>, end_hex |-> <<>>]
    ELSE LET h1   == TakeHex(token, 3)
             dash == 3 + Len(h1)
             h2   == IF dash <= Len(token) /\ token[dash] = "-"
                     THEN TakeHex(token, dash + 1) ELSE <<>>
         IN  [ok |-> TRUE, start_hex |-> h1, end_hex |-> h2]

\* "for cp in range(start_cp, end_cp + 1)": cp is appended unless seen (seen
\* holds exactly the elements of codepoints).
RECURSIVE AppendRange(_, _, _)
AppendRange(acc, cp, end_cp) ==
    IF cp > end_cp THEN acc
    ELSE AppendRange(IF cp \in Range(acc) THEN acc ELSE Append(acc, cp), cp + 1, end_cp)

\* ParseItem without the exchange of lines 41-42.
ParseItemNoSwap(acc, item) ==
    LET token == Strip(item)
        m2    == MatchToken(token)
    IN  IF token = <<>> \/ ~m2.ok THEN acc
        ELSE LET first == HexToInt(m2.start_hex)
                 last  == IF m2.end_hex # <<>> THEN HexToInt(m2.end_hex) ELSE first
             IN  AppendRange(acc, first, last)

\* One item of the comma-separated list: lines 30-46.
ParseItem(acc, item) ==
    LET token == Strip(item)
        m2    == MatchToken(token)
    IN  IF token = <<>> \/ ~m2.ok THEN acc
        ELSE LET first == HexToInt(m2.start_hex)
                 last  == IF m2.end_hex # <<>> THEN HexToInt(m2.end_hex) ELSE first
             IN  AppendRange(acc, Min(first, last), Max(first, last))

RECURSIVE ParseItems(_, _)
ParseItems(acc, items) ==
    IF items = <<>> THEN acc
    ELSE ParseItems(ParseItem(acc, Head(items)), Tail(items))

RECURSIVE ParseBlocks(_, _)
ParseBlocks(acc, blocks) ==
    IF blocks = <<>> THEN acc
    ELSE ParseBlocks(ParseItems(acc, SplitComma(StripComments(Head(blocks), 1), 1)),
                     Tail(blocks))

parse_unicode_ranges_from_text(t) == ParseBlocks(<<>>, FindBlocks(t, 1))

(***************************************************************************)
(* A run of the compressor followed by the parser: the compressed tokens   *)
(* are written as a "unicode-range: ...;" line, as split_font writes them  *)
(* to the mapping file, and the line is parsed back.                       *)
(***************************************************************************)
\* Codepoints given to the compressor: U+0, U+4E00..U+4E02, U+4E05, U+10FFFE,
\* U+10FFFF.
CpDomain == {0, 19968, 19969, 19970, 19973, 1114110, 1114111}

\* ",".join(tokens)
RECURSIVE JoinComma(_)
JoinComma(tokens) ==
    IF tokens = <<>> THEN <<>>
    ELSE IF Len(tokens) = 1 THEN tokens[1]
    ELSE tokens[1] \o <<",">> \o JoinComma(Tail(tokens))

\* "unicode-range: " + ",".join(ranges) + ";"
RangeLine(tokens) ==
    <<"u", "n", "i", "c", "o", "d", "e", "-", "r", "a", "n", "g", "e", ":", " ">>
        \o JoinComma(tokens) \o <<";">>

InitRanges ==
    /\ IdlePartition /\ IdleMerge /\ IdleSplit /\ IdleCorpus /\ IdleMain /\ IdleGui
    /\ pc = "call_to_ranges"
    /\ codepoints \in SeqsUpTo(CpDomain, MaxCps)
    /\ ranges = <<>> /\ text = <<>> /\ parsed = <<>> /\ range_items = <<>>
    /\ order_file = [readable |-> FALSE, content |-> <<>>] /\ order_chars = <<>>

CodepointsToUnicodeRanges ==
    /\ pc = "call_to_ranges"
    /\ ranges' = codepoints_to_unicode_ranges(codepoints)
    /\ pc' = "write_line"
    /\ UNCHANGED <<codepoints, text, parsed, range_items, order_file, order_chars, notRanges>>

WriteRangeLine ==
    /\ pc = "write_line"
    /\ text' = RangeLine(ranges)
    /\ pc' = "call_parse"
    /\ UNCHANGED <<codepoints, ranges, parsed, range_items, order_file, order_chars, notRanges>>

ParseUnicodeRangesFromText ==
    /\ pc = "call_parse"
    /\ parsed' = parse_unicode_ranges_from_text(text)
    /\ pc' = "parsed"
    /\ UNCHANGED <<codepoints, ranges, text, range_items, order_file, order_chars, notRanges>>

NextRanges ==
    \/ CodepointsToUnicodeRanges
    \/ WriteRangeLine
    \/ ParseUnicodeRangesFromText

SpecRanges == InitRanges /\ [][NextRanges]_vars

(***************************************************************************)
(* Claims about the compressor and the parser (under SpecRanges)           *)
(***************************************************************************)
\* Position k starts a run: it is the first, or its element is not the
\* element before it plus one.
RunStarts(cps) == {k \in 1..Len(cps) : k = 1 \/ cps[k] # cps[k - 1] + 1}

\* The last position of the maximal run that starts at position s.
RunEnd(cps, s) ==
    CHOOSE e \in s..Len(cps) :
        /\ \A j \in (s + 1)..e : cps[j] = cps[j - 1] + 1
        /\ e = Len(cps) \/ cps[e + 1] # cps[e] + 1

\* The j-th run start, counted from the left.
NthRunStart(cps, j) ==
    CHOOSE s \in RunStarts(cps) : Cardinality({x \in RunStarts(cps) : x <= s}) = j

\* h writes n in lowercase hex without padding.
IsLowerHexOf(h, n) ==
    /\ h # <<>>
    /\ \A k \in DOMAIN h : \E d \in DOMAIN HexDigitsLower : h[k] = HexDigitsLower[d]
    /\ Len(h) > 1 => h[1] # "0"
    /\ HexToInt(h) = n

IsSingleToken(t, n) ==
    /\ Len(t) >= 3 /\ t[1] = "U" /\ t[2] = "+"
    /\ IsLowerHexOf(SubSeq(t, 3, Len(t)), n)

IsIntervalToken(t, a, b) ==
    /\ Len(t) >= 5 /\ t[1] = "U" /\ t[2] = "+"
    /\ \E d \in 4..(Len(t) - 1) :
           /\ t[d] = "-"
           /\ IsLowerHexOf(SubSeq(t, 3, d - 1), a)
           /\ IsLowerHexOf(SubSeq(t, d + 1, Len(t)), b)

NoDuplicates(s) == \A a, b \in DOMAIN s : s[a] = s[b] => a = b

\* C9: for every duplicate-free sequence of codepoints, in any order, parsing
\* the line "unicode-range: " + ",".join(tokens) + ";" of its compressed
\* tokens returns the sequence itself, in the same order.
C9_RoundTrip ==
    (pc = "parsed" /\ NoDuplicates(codepoints)) => parsed = codepoints

\* A duplicate-free, non-ascending input with a run and a six-digit codepoint
\* has been compressed and parsed back.
C9_Witness ==
    /\ pc = "parsed"
    /\ codepoints = <<1114111, 19973, 19968, 19969>>
    /\ Len(ranges) = 3
    /\ parsed = codepoints

(***************************************************************************)
(* merge_orders_keep_first                                                 *)
(***************************************************************************)
\* The loop "for ch in order" on acc = [seen, merged].
RECURSIVE MergeOrder(_, _)
MergeOrder(acc, order) ==
    IF order = <<>> THEN acc
    ELSE LET ch == Head(order)
         IN  MergeOrder(IF ch \notin acc.seen
                        THEN [seen |-> acc.seen \cup {ch}, merged |-> Append(acc.merged, ch)]
                        ELSE acc,
                        Tail(order))

\* The loop "for order in orders"; an empty order is skipped.
RECURSIVE MergeOrders(_, _)
MergeOrders(acc, os) ==
    IF os = <<>> THEN acc
    ELSE IF Head(os) = <<>> THEN MergeOrders(acc, Tail(os))
    ELSE MergeOrders(MergeOrder(acc, Head(os)), Tail(os))

\* seen cleared for each order: duplicates dropped per sequence only.
RECURSIVE merge_orders_per_sequence(_)
merge_orders_per_sequence(os) ==
    IF os = <<>> THEN <<>>
    ELSE MergeOrder([seen |-> {}, merged |-> <<>>], Head(os)).merged
             \o merge_orders_per_sequence(Tail(os))

\* os is the tuple of the arguments *orders.
merge_orders_keep_first(os) == MergeOrders([seen |-> {}, merged |-> <<>>], os).merged

\* The characters given to the merger: 'a', 'b', 'c'.
MergeAlphabet == {97, 98, 99}

InitMerge ==
    /\ IdlePartition /\ IdleRanges /\ IdleSplit /\ IdleCorpus /\ IdleMain /\ IdleGui
    /\ pc = "call_merge"
    /\ orders \in SeqsUpTo(SeqsUpTo(MergeAlphabet, MaxOrderLen), MaxOrders)
    /\ merged = <<>> /\ merged_twice = <<>>

\* merged = merge_orders_keep_first(*orders)
MergeOrdersKeepFirst ==
    /\ pc = "call_merge"
    /\ merged' = merge_orders_keep_first(orders)
    /\ pc' = "call_merge_twice"
    /\ UNCHANGED <<orders, merged_twice, notMerge>>

\* merged_twice = merge_orders_keep_first(*orders, *orders)
MergeOrdersTwice ==
    /\ pc = "call_merge_twice"
    /\ merged_twice' = merge_orders_keep_first(orders \o orders)
    /\ pc' = "merged"
    /\ UNCHANGED <<orders, merged, notMerge>>

NextMerge == MergeOrdersKeepFirst \/ MergeOrdersTwice

SpecMerge == InitMerge /\ [][NextMerge]_vars

(***************************************************************************)
(* Claims about merge_orders_keep_first (under SpecMerge)                  *)
(***************************************************************************)
\* The position of the first occurrence of x in s.
FirstIndex(s, x) == CHOOSE k \in DOMAIN s : s[k] = x /\ \A j \in 1..(k - 1) : s[j] # x

\* result is s with every occurrence of a character after its first removed.
IsFirstOccurrences(result, s) ==
    /\ NoDuplicates(result)
    /\ Range(result) = Range(s)
    /\ \A a, b \in DOMAIN result :
           a < b => FirstIndex(s, result[a]) < FirstIndex(s, result[b])

C10_Merged ==
    /\ pc \in {"call_merge_twice", "merged"} =>
           /\ IsFirstOccurrences(merged, Concat(orders))
           /\ orders = << <<97, 98>>, <<98, 99>> >> => merged = <<97, 98, 99>>
    /\ pc = "merged" => merged_twice = merged

\* C10: merge_orders_keep_first(s1, ..., sk) is s1 + ... + sk with every
\* occurrence of a character other than its first removed (no duplicates,
\* exactly the characters of the inputs, ordered by first occurrence);
\* (['a','b'], ['b','c']) gives ['a','b','c']; merging the inputs given twice
\* gives the same result; the inputs are not modified.
C10_MergeKeepFirst == [](C10_Merged) /\ [][orders' = orders]_vars

\* ['a','b'] and ['b','c'] have been merged, once and given twice.
C10_Witness ==
    /\ pc = "merged"
    /\ orders = << <<97, 98>>, <<98, 99>> >>
    /\ merged = <<97, 98, 99>>
    /\ merged_twice = <<97, 98, 99>>

(***************************************************************************)
(* split_font (src/font_splitter.py)                                       *)
(***************************************************************************)
\* The smallest element of a non-empty set of numbers.
SetMin(S) == CHOOSE x \in S : \A y \in S : x <= y

\* The elements of a set of numbers in ascending order.
RECURSIVE SortedSeqOf(_)
SortedSeqOf(S) == IF S = {} THEN <<>> ELSE <<SetMin(S)>> \o SortedSeqOf(S \ {SetMin(S)})

\* The filter followed by the font's characters that ordered does not hold
\* (a long-tail completion).
filter_available_chars_padded(fc, ordered) ==
    LET RECURSIVE Keep(_)
        Keep(o) == IF o = <<>> THEN <<>>
                   ELSE (IF Head(o) \in fc THEN <<Head(o)>> ELSE <<>>) \o Keep(Tail(o))
    IN  Keep(ordered) \o SortedSeqOf(fc \ Range(ordered))

\* "[c for c in ordered_chars if c in font_char_set]"
RECURSIVE filter_available_chars(_, _)
filter_available_chars(fc, ordered) ==
    IF ordered = <<>> THEN <<>>
    ELSE (IF Head(ordered) \in fc THEN <<Head(ordered)>> ELSE <<>>)
             \o filter_available_chars(fc, Tail(ordered))

\* math.ceil(a / b) for a >= 0 and b > 0.
CeilDiv(a, b) == (a + b - 1) \div b

\* The chunk count rounded down: "len(available_chars) // chars_per_chunk".
EffectiveNumChunksFloor(n, per_chunk, total) ==
    IF per_chunk > 0 THEN Max(1, total \div per_chunk) ELSE n

\* A chunk count that gives way to chars_per_chunk only when it is not positive.
EffectiveNumChunksCountWins(n, per_chunk, total) ==
    IF n > 0 THEN n
    ELSE IF per_chunk > 0 THEN Max(1, CeilDiv(total, per_chunk)) ELSE n

\* effective_num_chunks of lines 321-323; a chars_per_chunk of None or 0
\* fails the test "chars_per_chunk and chars_per_chunk > 0".
EffectiveNumChunks(n, per_chunk, total) ==
    IF per_chunk > 0 THEN Max(1, CeilDiv(total, per_chunk)) ELSE n

\* What lines 355-360 write for chunk k: its index, character count,
\* characters and unicode-range tokens.
MappingEntry(chunks, k) ==
    [index |-> k, char_count |-> Len(chunks[k]), characters |-> chunks[k],
     unicode_ranges |-> codepoints_to_unicode_ranges(chunks[k])]

\* The characters of the fonts and preferred orders: 'A', 'B', U+4E00.
SplitAlphabet == {65, 66, 19968}

\* The inventories analyze_font_characters returns: the whole alphabet, the
\* alphabet without 'B', and nothing (a font that cannot be read).
FontInventories == {SplitAlphabet, SplitAlphabet \ {66}, {}}

InitSplit ==
    /\ IdlePartition /\ IdleRanges /\ IdleMerge /\ IdleCorpus /\ IdleMain /\ IdleGui
    /\ pc = "call_split_font"
    /\ input_font_exists \in BOOLEAN
    /\ font_chars \in FontInventories
    /\ preferred_order \in SeqsUpTo(SplitAlphabet, MaxPreferred)
    /\ arg_num_chunks \in (0 - 1)..MaxSplitChunks
    /\ chars_per_chunk \in (0 - 1)..MaxPerChunk
    /\ available_chars = <<>> /\ char_chunks = <<>> /\ subset_i = 0
    /\ success_count = 0 /\ mapping = <<>> /\ ret = FALSE
    /\ attempted = <<>> /\ created_chunks = <<>> /\ subset_info_list = <<>>
    /\ io_before_loop = <<>>

SplitFontReturn(value) ==
    /\ pc' = "done_split_font"
    /\ ret' = value

\* Lines 295-334: the checks, the analysis of the font, the filter and the
\* partition. makedirs_ok: whether os.makedirs succeeds; any exception is
\* caught at line 367 and split_font returns False.
SplitFontBegin ==
    /\ pc = "call_split_font"
    /\ \E makedirs_ok \in BOOLEAN :
        /\ io_before_loop' =
               IF ~input_font_exists \/ ~makedirs_ok THEN <<>>
               ELSE <<"makedirs", "analyze_font_characters">>
        /\ IF ~input_font_exists \/ ~makedirs_ok \/ preferred_order = <<>>
           THEN /\ SplitFontReturn(FALSE)
                /\ UNCHANGED <<available_chars, char_chunks, subset_i, success_count>>
           ELSE LET available == filter_available_chars(font_chars, preferred_order)
                    effective == EffectiveNumChunks(arg_num_chunks, chars_per_chunk,
                                                    Len(available))
                    r         == split_characters_into_chunks(available, effective)
                IN  /\ available_chars' = available
                    /\ IF r.raised
                       THEN /\ SplitFontReturn(FALSE)
                            /\ UNCHANGED <<char_chunks, subset_i, success_count>>
                       ELSE /\ char_chunks' = r.chunks
                            /\ subset_i' = 1
                            /\ success_count' = 0
                            /\ pc' = "subset_loop"
                            /\ ret' = ret
    /\ UNCHANGED <<splitArgs, mapping, attempted, created_chunks, subset_info_list,
                   notSplit>>

\* Lines 335-344, one iteration: create_font_subset returns True or False (it
\* catches its own exceptions).
CreateFontSubset ==
    /\ pc = "subset_loop"
    /\ subset_i <= Len(char_chunks)
    /\ \E created \in BOOLEAN :
           /\ success_count' = IF created THEN success_count + 1 ELSE success_count
           /\ created_chunks' =
                  IF created THEN Append(created_chunks, subset_i) ELSE created_chunks
    /\ attempted' = Append(attempted, subset_i)
    /\ subset_i' = subset_i + 1
    /\ UNCHANGED <<pc, splitArgs, available_chars, char_chunks, mapping, ret,
                   subset_info_list, io_before_loop,
                   notSplit>>

\* Lines 346-369: the mapping file and the result. The file is written for
\* every chunk; when the write fails after `written` chunks the exception is
\* caught and split_font returns False.
WriteMappingFile ==
    /\ pc = "subset_loop"
    /\ subset_i > Len(char_chunks)
    /\ \/ /\ mapping' = [k \in 1..Len(char_chunks) |-> MappingEntry(char_chunks, k)]
          /\ SplitFontReturn(success_count > 0)
       \/ \E written \in 0..Len(char_chunks) :
              /\ mapping' = [k \in 1..written |-> MappingEntry(char_chunks, k)]
              /\ SplitFontReturn(FALSE)
    /\ UNCHANGED <<splitArgs, available_chars, char_chunks, subset_i, success_count,
                   attempted, created_chunks, subset_info_list, io_before_loop,
                   notSplit>>

NextSplit == SplitFontBegin \/ CreateFontSubset \/ WriteMappingFile

SpecSplit == InitSplit /\ [][NextSplit]_vars

(***************************************************************************)
(* Claims about split_font (under SpecSplit)                               *)
(***************************************************************************)
\* C7: with chars_per_chunk = m > 0 and L > 0 characters in the filtered
\* order, split_font partitions them into exactly ceil(L / m) chunks, none of
\* more than m characters.
C7_CharsPerChunk ==
    (pc # "call_split_font" /\ chars_per_chunk > 0 /\ Len(available_chars) > 0)
        => LET L == Len(available_chars)
               m == chars_per_chunk
               n == Len(char_chunks)
           IN  /\ (n - 1) * m < L /\ L <= n * m
               /\ \A k \in DOMAIN char_chunks : Len(char_chunks[k]) <= m
               /\ Concat(char_chunks) = available_chars

\* 4 available characters with chars_per_chunk = 3 gave 2 chunks of 2.
C7_Witness ==
    /\ pc = "subset_loop"
    /\ chars_per_chunk = 3
    /\ Len(available_chars) = 4
    /\ Len(char_chunks) = 2
    /\ Len(char_chunks[1]) = 2 /\ Len(char_chunks[2]) = 2

(***************************************************************************)
(* filter_available_chars on its own: font_chars and preferred_order are   *)
(* its arguments font_chars and ordered_chars (the call of line 317), and  *)
(* available_chars the list it returns.                                    *)
(***************************************************************************)
InitFilter ==
    /\ IdlePartition /\ IdleRanges /\ IdleMerge /\ IdleCorpus /\ IdleMain /\ IdleGui
    /\ pc = "call_filter"
    /\ input_font_exists = TRUE
    /\ font_chars \in SUBSET SplitAlphabet
    /\ preferred_order \in SeqsUpTo(SplitAlphabet, MaxPreferred)
    /\ arg_num_chunks = 0 /\ chars_per_chunk = 0
    /\ available_chars = <<>> /\ char_chunks = <<>> /\ subset_i = 0
    /\ success_count = 0 /\ mapping = <<>> /\ ret = FALSE
    /\ attempted = <<>> /\ created_chunks = <<>> /\ subset_info_list = <<>>
    /\ io_before_loop = <<>>

FilterAvailableChars ==
    /\ pc = "call_filter"
    /\ available_chars' = filter_available_chars(font_chars, preferred_order)
    /\ pc' = "filtered"
    /\ UNCHANGED <<splitArgs, char_chunks, subset_i, success_count, mapping, ret,
                   attempted, created_chunks, subset_info_list, io_before_loop,
                   notSplit>>

NextFilter == FilterAvailableChars

SpecFilter == InitFilter /\ [][NextFilter]_vars

\* The positions of ordered whose element is in fc.
KeptPositions(fc, ordered) == {k \in DOMAIN ordered : ordered[k] \in fc}

\* The j-th smallest element of a set of numbers.
NthSmallest(S, j) == CHOOSE x \in S : Cardinality({y \in S : y <= x}) = j

\* C11: filter_available_chars(font_chars, ordered) is exactly the
\* subsequence of ordered made of the elements that are in font_chars, in
\* ordered's order: every output element is in both inputs, every element of
\* ordered that is in font_chars is kept, and no character of font_chars
\* that ordered lacks is added.
C11_FilterIsSubsequence ==
    pc = "filtered" =>
        LET kept == KeptPositions(font_chars, preferred_order)
        IN  /\ Len(available_chars) = Cardinality(kept)
            /\ \A j \in DOMAIN available_chars :
                   available_chars[j] = preferred_order[NthSmallest(kept, j)]
            /\ Range(available_chars) = Range(preferred_order) \cap font_chars
            /\ \A c \in font_chars \ Range(preferred_order) :
                   c \notin Range(available_chars)

\* An order with a repeated character, one the font lacks, and a font
\* character the order lacks, has been filtered.
C11_Witness ==
    /\ pc = "filtered"
    /\ font_chars = {65, 19968}
    /\ preferred_order = <<66, 65, 66, 65>>
    /\ available_chars = <<65, 65>>

(***************************************************************************)
(* parse_unicode_ranges_from_text on texts written by hand (SpecParse)     *)
(*                                                                         *)
(* The texts given to the parser are made of the elements below: range_items*)
(* is a sequence of indices of RangeItems, 0 standing for the end of one   *)
(* "unicode-range:" declaration and the start of the next. Each element    *)
(* records, next to its characters s, what is written in it: bare is s with*)
(* its comments deleted; matches tells whether the token pattern of line 34*)
(* matches at the start of the token the parser sees, lo and hi being the  *)
(* two hexadecimal numbers matched (hi = lo without a second number);      *)
(* wellformed tells whether the whole of bare, stripped, is U+hex or       *)
(* U+hex-hex; cuts tells that s holds a ";", where the block pattern of    *)
(* line 25 ends the declaration.                                           *)
(***************************************************************************)
RangeItems == <<
    [s |-> <<"U", "+", "4", "1">>,
     bare |-> <<"U", "+", "4", "1">>,
     matches |-> TRUE, lo |-> 65, hi |-> 65, wellformed |-> TRUE, comment |-> FALSE, cuts |-> FALSE],
    [s |-> <<"U", "+", "4", "1", "-", "4", "3">>,
     bare |-> <<"U", "+", "4", "1", "-", "4", "3">>,
     matches |-> TRUE, lo |-> 65, hi |-> 67, wellformed |-> TRUE, comment |-> FALSE, cuts |-> FALSE],
    [s |-> <<"U", "+", "4", "3", "-", "4", "1">>,
     bare |-> <<"U", "+", "4", "3", "-", "4", "1">>,
     matches |-> TRUE, lo |-> 67, hi |-> 65, wellformed |-> TRUE, comment |-> FALSE, cuts |-> FALSE],
    [s |-> <<" ", "U", "+", "4", "e", "0", "0", " ">>,
     bare |-> <<" ", "U", "+", "4", "e", "0", "0", " ">>,
     matches |-> TRUE, lo |-> 19968, hi |-> 19968, wellformed |-> TRUE, comment |-> FALSE, cuts |-> FALSE],
    [s |-> <<"U", "+", "4", "2", "-", "4", "4">>,
     bare |-> <<"U", "+", "4", "2", "-", "4", "4">>,
     matches |-> TRUE, lo |-> 66, hi |-> 68, wellformed |-> TRUE, comment |-> FALSE, cuts |-> FALSE],
    [s |-> <<"u", "+", "4", "1">>,
     bare |-> <<"u", "+", "4", "1">>,
     matches |-> FALSE, lo |-> 0, hi |-> 0, wellformed |-> FALSE, comment |-> FALSE, cuts |-> FALSE],
    [s |-> <<>>,
     bare |-> <<>>,
     matches |-> FALSE, lo |-> 0, hi |-> 0, wellformed |-> FALSE, comment |-> FALSE, cuts |-> FALSE],
    [s |-> <<"U", "+", "5", "0", "x">>,
     bare |-> <<"U", "+", "5", "0", "x">>,
     matches |-> TRUE, lo |-> 80, hi |-> 80, wellformed |-> FALSE, comment |-> FALSE, cuts |-> FALSE],
    [s |-> <<"U", "+", "0", "0", "4", "1", "/", "*", "c", "o", "m", "m", "e", "n", "t", ",", "w", "i", "t", "h", ",", "c", "o", "m", "m", "a", "s", "*", "/", "-", "0", "0", "4", "3">>,
     bare |-> <<"U", "+", "0", "0", "4", "1", "-", "0", "0", "4", "3">>,
     matches |-> TRUE, lo |-> 65, hi |-> 67, wellformed |-> TRUE, comment |-> TRUE, cuts |-> FALSE],
    [s |-> <<"U", "+", "4", "5", "/", "*", ";", "*", "/", "-", "4", "7">>,
     bare |-> <<"U", "+", "4", "5", "-", "4", "7">>,
     matches |-> TRUE, lo |-> 69, hi |-> 69, wellformed |-> TRUE, comment |-> TRUE, cuts |-> TRUE],
    [s |-> <<"U", "+", "D", "7", "F", "F", "-", "D", "8", "0", "1">>,
     bare |-> <<"U", "+", "D", "7", "F", "F", "-", "D", "8", "0", "1">>,
     matches |-> TRUE, lo |-> 55295, hi |-> 55297, wellformed |-> TRUE, comment |-> FALSE, cuts |-> FALSE],
    [s |-> <<"U", "+", "1", "0", "F", "F", "F", "F", "-", "1", "1", "0", "0", "0", "0">>,
     bare |-> <<"U", "+", "1", "0", "F", "F", "F", "F", "-", "1", "1", "0", "0", "0", "0">>,
     matches |-> TRUE, lo |-> 1114111, hi |-> 1114112, wellformed |-> TRUE, comment |-> FALSE, cuts |-> FALSE]
>>

Header == <<"u", "n", "i", "c", "o", "d", "e", "-", "r", "a", "n", "g", "e", ":", " ">>

\* The text of the elements elems: the items of one declaration separated by
\* commas, each declaration ended by ";". bare: with the comments deleted.
RECURSIVE RenderItems(_, _, _)
RenderItems(elems, first, bare) ==
    IF elems = <<>> THEN <<";">>
    ELSE IF Head(elems) = 0
         THEN <<";">> \o Header \o RenderItems(Tail(elems), TRUE, bare)
    ELSE (IF first THEN <<>> ELSE <<",">>)
             \o (IF bare THEN RangeItems[Head(elems)].bare ELSE RangeItems[Head(elems)].s)
             \o RenderItems(Tail(elems), FALSE, bare)

RangeText(elems) == Header \o RenderItems(elems, TRUE, FALSE)
RangeTextWithoutComments(elems) == Header \o RenderItems(elems, TRUE, TRUE)

InitParse ==
    /\ IdlePartition /\ IdleMerge /\ IdleSplit /\ IdleCorpus /\ IdleMain /\ IdleGui
    /\ pc = "call_parse"
    /\ range_items \in SeqsUpTo(0..Len(RangeItems), MaxItems)
    /\ text = RangeText(range_items)
    /\ codepoints = <<>> /\ ranges = <<>> /\ parsed = <<>>
    /\ order_file = [readable |-> FALSE, content |-> <<>>] /\ order_chars = <<>>

NextParse == ParseUnicodeRangesFromText

SpecParse == InitParse /\ [][NextParse]_vars

(***************************************************************************)
(* Claims about the parser (under SpecParse)                               *)
(***************************************************************************)
\* The items the block pattern hands to the token loop: within one
\* declaration, the items up to and including the first one holding a ";".
RECURSIVE TokensOf(_, _)
TokensOf(elems, cut) ==
    IF elems = <<>> THEN <<>>
    ELSE IF Head(elems) = 0 THEN TokensOf(Tail(elems), FALSE)
    ELSE IF cut THEN TokensOf(Tail(elems), TRUE)
    ELSE <<Head(elems)>> \o TokensOf(Tail(elems), RangeItems[Head(elems)].cuts)

AscendingSeq(a, b) == [k \in 1..(b - a + 1) |-> a + k - 1]

\* The codepoints of the valid tokens, token after token, each token in
\* ascending order from the smaller to the larger of its two numbers.
RECURSIVE ExpandTokens(_)
ExpandTokens(toks) ==
    IF toks = <<>> THEN <<>>
    ELSE LET it == RangeItems[Head(toks)]
         IN  (IF it.matches THEN AscendingSeq(Min(it.lo, it.hi), Max(it.lo, it.hi))
              ELSE <<>>) \o ExpandTokens(Tail(toks))

\* C12: the parser returns every codepoint covered by the valid tokens of all
\* the unicode-range blocks exactly once, in the order of first encounter in
\* the token-by-token expansion (not sorted); a token whose end is below its
\* start is expanded as the inclusive range from end to start.
C12_ParsedOnceInOrder ==
    pc = "parsed" =>
        IsFirstOccurrences(parsed, ExpandTokens(TokensOf(range_items, FALSE)))

\* A reversed token after a larger codepoint and before an overlapping token.
C12_Witness ==
    /\ pc = "parsed"
    /\ range_items = <<4, 3, 5>>
    /\ parsed = <<19968, 65, 66, 67, 68>>

\* C13: block comments are removed before the list is split on commas,
\* whatever characters the comment contains, so the parsed codepoints equal
\* those of the same list with the comments deleted (and the list
\* "U+0041/*comment,with,commas*/-0043" yields 0x41, 0x42, 0x43).
C13_CommentsAreDeleted ==
    pc = "parsed" =>
        /\ parsed = parse_unicode_ranges_from_text(RangeTextWithoutComments(range_items))
        /\ range_items = <<9>> => parsed = <<65, 66, 67>>

\* ExpandTokens over the tokens that are, as a whole, U+hex or U+hex-hex.
RECURSIVE ExpandWellformed(_)
ExpandWellformed(toks) ==
    IF toks = <<>> THEN <<>>
    ELSE LET it == RangeItems[Head(toks)]
         IN  (IF it.wellformed THEN AscendingSeq(Min(it.lo, it.hi), Max(it.lo, it.hi))
              ELSE <<>>) \o ExpandWellformed(Tail(toks))

\* C20: a comma-separated token that is not of the form U+hex or U+hex-hex is
\* skipped: it contributes no codepoint, and the other tokens of the list are
\* still expanded (stated for the lists written without comments).
C20_MalformedSkipped ==
    (pc = "parsed" /\ \A k \in DOMAIN range_items :
                          range_items[k] # 0 => ~RangeItems[range_items[k]].comment) =>
        IsFirstOccurrences(parsed, ExpandWellformed(TokensOf(range_items, FALSE)))

(***************************************************************************)
(* build_order_from_corpus (SpecCorpus)                                    *)
(*                                                                         *)
(* A corpus file is a record [content, delivered]: content is the sequence *)
(* of characters of the file and delivered the number of them the loop of  *)
(* lines 132-140 gets before open() or the decoding raises; a file that is *)
(* read to its end has delivered = Len(content), a file that cannot be     *)
(* opened has delivered = 0.                                               *)
(***************************************************************************)
\* The state of the loops: counts and first_index are functions on the
\* characters counted so far.
EmptyCount == [counts |-> <<>>, first_index |-> <<>>, idx |-> 0]

\* Lines 133-140, for the characters cs of one file.
RECURSIVE CountChars(_, _)
CountChars(st, cs) ==
    IF cs = <<>> THEN st
    ELSE LET ch == Head(cs)
         IN  IF ch <= 31 THEN CountChars(st, Tail(cs))
             ELSE CountChars(
                      [counts |-> IF ch \in DOMAIN st.counts
                                  THEN [st.counts EXCEPT ![ch] = @ + 1]
                                  ELSE st.counts @@ (ch :> 1),
                       first_index |-> IF ch \in DOMAIN st.first_index
                                       THEN st.first_index
                                       ELSE st.first_index @@ (ch :> st.idx),
                       idx |-> st.idx + 1],
                      Tail(cs))

\* Lines 129-142: what was counted when a file raises stays counted.
RECURSIVE CountFiles(_, _)
CountFiles(st, files) ==
    IF files = <<>> THEN st
    ELSE CountFiles(CountChars(st, SubSeq(Head(files).content, 1, Head(files).delivered)),
                    Tail(files))

\* CountFiles with the position counter starting again at 0 in every file.
RECURSIVE CountFilesResetting(_, _)
CountFilesResetting(st, files) ==
    IF files = <<>> THEN st
    ELSE CountFilesResetting(
             CountChars([st EXCEPT !.idx = 0],
                        SubSeq(Head(files).content, 1, Head(files).delivered)),
             Tail(files))

\* sorted(keys, key=lambda c: (-counts[c], first_index[c])); keys is given in
\* the order of the dict (insertion order), which a stable sort keeps among
\* equal keys.
KeyLess(st, c, d) ==
    \/ st.counts[c] > st.counts[d]
    \/ st.counts[c] = st.counts[d] /\ st.first_index[c] < st.first_index[d]

RECURSIVE InsertByKey(_, _, _)
InsertByKey(st, sorted, c) ==
    IF sorted = <<>> THEN <<c>>
    ELSE IF KeyLess(st, c, Head(sorted)) THEN <<c>> \o sorted
    ELSE <<Head(sorted)>> \o InsertByKey(st, Tail(sorted), c)

RECURSIVE SortByKey(_, _, _)
SortByKey(st, keys, sorted) ==
    IF keys = <<>> THEN sorted
    ELSE SortByKey(st, Tail(keys), InsertByKey(st, sorted, Head(keys)))

\* dict keys in insertion order: the characters by the first_index given them.
RECURSIVE KeysInOrder(_, _)
KeysInOrder(st, left) ==
    IF left = {} THEN <<>>
    ELSE LET c == CHOOSE x \in left : \A y \in left : st.first_index[x] <= st.first_index[y]
         IN  <<c>> \o KeysInOrder(st, left \ {c})

build_order_resetting(paths) ==
    LET st == CountFilesResetting(EmptyCount, paths)
    IN  SortByKey(st, KeysInOrder(st, DOMAIN st.counts), <<>>)

build_order_from_corpus(paths) ==
    LET st == CountFiles(EmptyCount, paths)
    IN  SortByKey(st, KeysInOrder(st, DOMAIN st.counts), <<>>)

\* The corpora tried are written as one sequence of symbols: a character
\* (0x1F, space, "a", "b"), 0 for the end of a file and the start of the next,
\* -1 for the place where reading the current file raises.
CorpusSymbols == {31, 32, 97, 98, 0, 0 - 1}

\* The first file written in symbols, as a record.
RECURSIVE FirstFile(_, _, _)
FirstFile(symbols, file, failed) ==
    IF symbols = <<>> \/ Head(symbols) = 0 THEN file
    ELSE IF Head(symbols) = 0 - 1 THEN FirstFile(Tail(symbols), file, TRUE)
    ELSE FirstFile(Tail(symbols),
                   [content |-> Append(file.content, Head(symbols)),
                    delivered |-> IF failed THEN file.delivered ELSE file.delivered + 1],
                   failed)

RECURSIVE AfterFirstFile(_)
AfterFirstFile(symbols) ==
    IF symbols = <<>> THEN <<>>
    ELSE IF Head(symbols) = 0 THEN symbols
    ELSE AfterFirstFile(Tail(symbols))

RECURSIVE FilesOf(_)
FilesOf(symbols) ==
    <<FirstFile(symbols, [content |-> <<>>, delivered |-> 0], FALSE)>>
        \o (IF AfterFirstFile(symbols) = <<>> THEN <<>>
            ELSE FilesOf(Tail(AfterFirstFile(symbols))))

InitCorpus ==
    /\ IdlePartition /\ IdleRanges /\ IdleMerge /\ IdleSplit /\ IdleMain /\ IdleGui
    /\ pc = "call_build_order"
    /\ corpus \in {FilesOf(symbols) : symbols \in SeqsUpTo(CorpusSymbols, MaxCorpusLen)}
    /\ corpus_order = <<>>

BuildOrderFromCorpus ==
    /\ pc = "call_build_order"
    /\ corpus_order' = build_order_from_corpus(corpus)
    /\ pc' = "built_order"
    /\ UNCHANGED <<corpus, notCorpus>>

NextCorpus == BuildOrderFromCorpus

SpecCorpus == InitCorpus /\ [][NextCorpus]_vars

(***************************************************************************)
(* Claims about build_order_from_corpus (under SpecCorpus)                 *)
(***************************************************************************)
\* The characters the files deliver, file after file in path order.
RECURSIVE Delivered(_)
Delivered(files) ==
    IF files = <<>> THEN <<>>
    ELSE SubSeq(Head(files).content, 1, Head(files).delivered) \o Delivered(Tail(files))

Occurrences(s, x) == Cardinality({k \in DOMAIN s : s[k] = x})

CreateFontSubsetAndUpload ==
    /\ pc = "subset_loop"
    /\ subset_i <= Len(char_chunks)
    /\ attempted' = Append(attempted, subset_i)
    /\ \E created, uploaded \in BOOLEAN :
           IF ~created
           THEN /\ subset_i' = subset_i + 1
                /\ UNCHANGED <<pc, ret, success_count, created_chunks, subset_info_list>>
           ELSE /\ success_count' = success_count + 1
                /\ created_chunks' = Append(created_chunks, subset_i)
                /\ IF uploaded
                   THEN /\ subset_info_list' =
                               Append(subset_info_list, MappingEntry(char_chunks, subset_i))
                        /\ subset_i' = subset_i + 1
                        /\ UNCHANGED <<pc, ret>>
                   ELSE /\ SplitFontReturn(FALSE)
                        /\ UNCHANGED <<subset_i, subset_info_list>>
    /\ UNCHANGED <<splitArgs, available_chars, char_chunks, mapping, io_before_loop,
                   notSplit>>

\* Lines 601-622: the mapping file lists subset_info_list; the result of
\* generate_css_file is only printed. A failing write is caught at line 620.
WriteMappingAndCss ==
    /\ pc = "subset_loop"
    /\ subset_i > Len(char_chunks)
    /\ \/ /\ mapping' = subset_info_list
          /\ SplitFontReturn(success_count > 0)
       \/ \E written \in 0..Len(subset_info_list) :
              /\ mapping' = SubSeq(subset_info_list, 1, written)
              /\ SplitFontReturn(FALSE)
    /\ UNCHANGED <<splitArgs, available_chars, char_chunks, subset_i, success_count,
                   attempted, created_chunks, subset_info_list, io_before_loop,
                   notSplit>>

NextSplitCdn == SplitFontBegin \/ CreateFontSubsetAndUpload \/ WriteMappingAndCss

SpecSplitCdn == InitSplit /\ [][NextSplitCdn]_vars

\* C16: in split_font every chunk of the partition is attempted exactly once,
\* in index order, and a failure while processing chunk i (of the subsetting
\* call or of a step after it, such as the upload) never prevents the chunks
\* after i from being processed: when split_font returns, the loop body has
\* been entered with 1, 2, ..., len(char_chunks).
C16_EveryChunkAttempted ==
    /\ attempted = [k \in 1..Len(attempted) |-> k]
    /\ pc = "done_split_font" => Len(attempted) = Len(char_chunks)

(***************************************************************************)
(* FontConverterAPI.split_font_and_generate_css of src/font_trans.py       *)
(* (SpecFontTrans)                                                         *)
(*                                                                         *)
(* preferred_order stands for ordered_chars, the characters parsed from the*)
(* unicode file of the language; ret for the "success" field of the dict   *)
(* returned.                                                               *)
(***************************************************************************)
InitFontTrans ==
    /\ IdlePartition /\ IdleRanges /\ IdleMerge /\ IdleCorpus /\ IdleMain /\ IdleGui
    /\ pc = "call_split_and_css"
    /\ input_font_exists \in BOOLEAN
    /\ font_chars \in FontInventories
    /\ preferred_order \in SeqsUpTo(SplitAlphabet, MaxPreferred)
    /\ arg_num_chunks \in (0 - 1)..MaxSplitChunks
    /\ chars_per_chunk = 0
    /\ available_chars = <<>> /\ char_chunks = <<>> /\ subset_i = 0
    /\ success_count = 0 /\ mapping = <<>> /\ ret = FALSE
    /\ attempted = <<>> /\ created_chunks = <<>> /\ subset_info_list = <<>>
    /\ io_before_loop = <<>>

FontTransReturn(value) ==
    /\ pc' = "done_split_and_css"
    /\ ret' = value

\* Lines 307-353: the checks, the analysis, the filter and the partition.
\* An exception (os.makedirs, the ValueError of the partitioner) is caught at
\* line 406: success is False.
SplitAndGenerateBegin ==
    /\ pc = "call_split_and_css"
    /\ \E makedirs_ok, unicode_file_exists \in BOOLEAN :
        /\ io_before_loop' =
               IF ~input_font_exists \/ ~makedirs_ok THEN <<>>
               ELSE <<"makedirs", "analyze_font_characters">>
        /\ IF \/ ~input_font_exists \/ ~makedirs_ok \/ font_chars = {}
              \/ ~unicode_file_exists
           THEN /\ FontTransReturn(FALSE)
                /\ UNCHANGED <<available_chars, char_chunks, subset_i, success_count>>
           ELSE LET available == filter_available_chars(font_chars, preferred_order)
                    r         == split_characters_into_chunks(available, arg_num_chunks)
                IN  /\ available_chars' = available
                    /\ IF available = <<>> \/ r.raised
                       THEN /\ FontTransReturn(FALSE)
                            /\ UNCHANGED <<char_chunks, subset_i, success_count>>
                       ELSE /\ char_chunks' = r.chunks
                            /\ subset_i' = 1
                            /\ success_count' = 0
                            /\ pc' = "css_subset_loop"
                            /\ ret' = ret
    /\ UNCHANGED <<splitArgs, mapping, attempted, created_chunks, subset_info_list,
                   notSplit>>

\* Lines 355-385, one iteration: upload_to_cdn returns the URL or, when the
\* upload fails, a mock URL (lines 245-250); the subset is recorded either way.
CreateSubsetAndRecord ==
    /\ pc = "css_subset_loop"
    /\ subset_i <= Len(char_chunks)
    /\ attempted' = Append(attempted, subset_i)
    /\ \E created \in BOOLEAN :
           IF created
           THEN /\ success_count' = success_count + 1
                /\ created_chunks' = Append(created_chunks, subset_i)
                /\ subset_info_list' =
                       Append(subset_info_list, MappingEntry(char_chunks, subset_i))
           ELSE UNCHANGED <<success_count, created_chunks, subset_info_list>>
    /\ subset_i' = subset_i + 1
    /\ UNCHANGED <<pc, ret, splitArgs, available_chars, char_chunks, mapping, io_before_loop,
                   notSplit>>

\* Lines 387-404: success is what generate_css_file returns (True once the
\* file is written, whatever subset_info_list holds: lines 254-291).
GenerateCssFile ==
    /\ pc = "css_subset_loop"
    /\ subset_i > Len(char_chunks)
    /\ \E css_written \in BOOLEAN : FontTransReturn(css_written)
    /\ UNCHANGED <<splitArgs, available_chars, char_chunks, subset_i, success_count,
                   mapping, attempted, created_chunks, subset_info_list, io_before_loop,
                   notSplit>>

NextFontTrans == SplitAndGenerateBegin \/ CreateSubsetAndRecord \/ GenerateCssFile

SpecFontTrans == InitFontTrans /\ [][NextFontTrans]_vars

\* C17: the overall result of a split run is success exactly when at least
\* one chunk was successfully subsetted; when every chunk fails (or there are
\* no chunks) the run reports failure.
C17_SuccessIffSubsetted ==
    pc = "done_split_and_css" => (ret <=> success_count > 0)

(***************************************************************************)
(* More claims about split_font (under SpecSplit)                          *)
(***************************************************************************)
\* The chunk list that chars_per_chunk = m alone determines for a font and an
\* order: num_chunks is no argument of it.
ChunksByCharsPerChunk(fc, order, m) ==
    LET available == filter_available_chars(fc, order)
    IN  split_characters_into_chunks(
            available, Max(1, (Len(available) + m - 1) \div m)).chunks

\* C18: when both a chunk count and a positive chars_per_chunk are given,
\* chars_per_chunk wins: the chunk list split_font produces is the one
\* chars_per_chunk determines, the same for every num_chunks (also <= 0).
C18_CharsPerChunkWins ==
    (chars_per_chunk > 0 /\ subset_i >= 1) =>
        char_chunks = ChunksByCharsPerChunk(font_chars, preferred_order, chars_per_chunk)

\* A negative chunk count next to chars_per_chunk = 2: two chunks all the same.
C18_Witness ==
    /\ pc = "done_split_font"
    /\ arg_num_chunks = 0 - 1
    /\ chars_per_chunk = 2
    /\ char_chunks = <<<<65, 66>>, <<19968>>>>
    /\ ret = TRUE

(***************************************************************************)
(* main, the command line of src/font_splitter.py (SpecCli)                *)
(*                                                                         *)
(* args is the parsed command line: language ("" when --language is not    *)
(* given) and the order sources, each file written as what it holds.       *)
(* input_font_exists, font_chars, arg_num_chunks and chars_per_chunk are   *)
(* the font named on the command line and the options --num-chunks and     *)
(* --chars-per-chunk, which main hands to split_font unchanged.            *)
(***************************************************************************)
\* parse_unicode_order_file, lines 53-67: chr(cp) raises for a cp above
\* 0x10FFFF and the codepoint is left out; a file that cannot be read gives [].
IsChr(cp) == cp <= 1114111
parse_unicode_order_file(file) ==
    IF ~file.readable THEN <<>>
    ELSE SelectSeq(parse_unicode_ranges_from_text(file.content), IsChr)

\* load_character_list_file, lines 74-80, for a file written as the
\* characters of its stripped content.
load_character_list_file(file) ==
    IF ~file.readable THEN <<>> ELSE file.content

\* PRESET_BLOCKS, lines 147-164, every range as its start and end, cut to its
\* first PresetRangeLen codepoints.
PresetRange(start, end) == <<start, Min(end, start + PresetRangeLen - 1)>>
PRESET_BLOCKS ==
    [key \in {"jp-basic", "tc-basic"} |->
        IF key = "jp-basic"
        THEN <<PresetRange(12352, 12447), PresetRange(12448, 12543),
               PresetRange(12784, 12799), PresetRange(65382, 65439),
               PresetRange(19968, 40959)>>
        ELSE <<PresetRange(19968, 40959), PresetRange(13312, 19903),
               PresetRange(63744, 64255), PresetRange(194560, 195103)>>]

\* expand_unicode_ranges_to_chars, lines 87-104, for ranges already matched.
RECURSIVE expand_unicode_ranges_to_chars(_, _)
expand_unicode_ranges_to_chars(acc, block_ranges) ==
    IF block_ranges = <<>> THEN acc
    ELSE LET r == Head(block_ranges)
         IN  expand_unicode_ranges_to_chars(
                 AppendRange(acc, Min(r[1], r[2]), Max(r[1], r[2])), Tail(block_ranges))

\* The loops "for p in args.unicode_order_file" and "for p in
\* args.character_list_file": lines 397-406, 409-418, 424-433, 443-452.
RECURSIVE MergeOrderFiles(_, _)
MergeOrderFiles(order, files) ==
    IF files = <<>> THEN order
    ELSE MergeOrderFiles(
             merge_orders_keep_first(<<order, parse_unicode_order_file(Head(files))>>),
             Tail(files))

RECURSIVE MergeListFiles(_, _)
MergeListFiles(order, files) ==
    IF files = <<>> THEN order
    ELSE MergeListFiles(
             merge_orders_keep_first(<<order, load_character_list_file(Head(files))>>),
             Tail(files))

\* Lines 453-460: unknown keys are skipped.
RECURSIVE MergeBlocks(_, _)
MergeBlocks(order, keys) ==
    IF keys = <<>> THEN order
    ELSE IF Head(keys) \notin DOMAIN PRESET_BLOCKS THEN MergeBlocks(order, Tail(keys))
    ELSE MergeBlocks(
             merge_orders_keep_first(
                 <<order, expand_unicode_ranges_to_chars(<<>>, PRESET_BLOCKS[Head(keys)])>>),
             Tail(keys))

\* PreferredOrderChars reading --include-blocks in language mode as well.
PreferredOrderCharsWithBlocks(a) ==
    LET s       == a.sources
        files   == MergeListFiles(MergeOrderFiles(<<>>, s.unicode_order_file),
                                  s.character_list_file)
        nofile  == s.unicode_order_file = <<>> /\ s.character_list_file = <<>>
        preset  == IF a.language = "ja" THEN "jp-basic" ELSE "tc-basic"
        sourced == IF a.language = "zh" THEN MergeBlocks(files, s.include_blocks)
                   ELSE IF a.language \in {"ja", "tc"}
                        THEN MergeBlocks(IF nofile THEN MergeBlocks(files, <<preset>>) ELSE files,
                                         s.include_blocks)
                   ELSE MergeBlocks(files, s.include_blocks)
    IN  IF s.auto_order_from_corpus # <<>>
        THEN merge_orders_keep_first(
                 <<build_order_from_corpus(s.auto_order_from_corpus), sourced>>)
        ELSE sourced

\* preferred_order_chars at line 465.
PreferredOrderChars(a) ==
    LET s       == a.sources
        files   == MergeListFiles(MergeOrderFiles(<<>>, s.unicode_order_file),
                                  s.character_list_file)
        nofile  == s.unicode_order_file = <<>> /\ s.character_list_file = <<>>
        preset  == IF a.language = "ja" THEN "jp-basic" ELSE "tc-basic"
        sourced == IF a.language = "zh" THEN files
                   ELSE IF a.language \in {"ja", "tc"}
                        THEN IF nofile THEN MergeBlocks(files, <<preset>>) ELSE files
                   ELSE MergeBlocks(files, s.include_blocks)
    IN  IF s.auto_order_from_corpus # <<>>
        THEN merge_orders_keep_first(
                 <<build_order_from_corpus(s.auto_order_from_corpus), sourced>>)
        ELSE sourced

\* The order sources tried. Order files: the file of the end-to-end scenario
\* of the specification, a file with one codepoint, a file that cannot be read.
ScenarioOrderText ==
    <<"u", "n", "i", "c", "o", "d", "e", "-", "r", "a", "n", "g", "e", ":",
      " ", "U", "+", "4", "E", "0", "0", "-", "4", "E", "0", "5", ",", "U",
      "+", "0", "0", "4", "1", "-", "0", "0", "4", "2", ";">>
OrderFiles ==
    <<[readable |-> TRUE, content |-> ScenarioOrderText],
      [readable |-> TRUE,
       content |-> <<"u", "n", "i", "c", "o", "d", "e", "-", "r", "a", "n", "g", "e", ":",
                    " ", "U", "+", "4", "1", ";">>],
      [readable |-> FALSE, content |-> <<>>]>>

\* Character list files: "BA" and an empty file.
ListFiles == <<[readable |-> TRUE, content |-> <<66, 65>>], [readable |-> TRUE, content |-> <<>>]>>

\* The values of --include-blocks.
BlockLists == <<<<"jp-basic">>, <<"no-such-block">>, <<"no-such-block", "tc-basic">>>>

\* The values of --auto-order-from-corpus: a file "aAA", a file that cannot be
\* opened.
Corpora ==
    <<<<[content |-> <<97, 65, 65>>, delivered |-> 3]>>,
      <<[content |-> <<97>>, delivered |-> 0]>>>>

\* The options a command line is made of: the option and which of its values.
CliOptions ==
    <<[opt |-> "unicode_order_file", k |-> 1], [opt |-> "unicode_order_file", k |-> 2],
      [opt |-> "unicode_order_file", k |-> 3],
      [opt |-> "character_list_file", k |-> 1], [opt |-> "character_list_file", k |-> 2],
      [opt |-> "include_blocks", k |-> 1], [opt |-> "include_blocks", k |-> 2],
      [opt |-> "include_blocks", k |-> 3],
      [opt |-> "auto_order_from_corpus", k |-> 1],
      [opt |-> "auto_order_from_corpus", k |-> 2]>>

\* argparse, lines 377-380: the file options have action='append', every
\* occurrence adds a file; the other two have nargs='*', the last occurrence
\* replaces the ones before.
RECURSIVE ParseArgs(_, _)
ParseArgs(sources, opts) ==
    IF opts = <<>> THEN sources
    ELSE LET o == CliOptions[Head(opts)]
         IN  ParseArgs(
                 IF o.opt = "unicode_order_file"
                 THEN [sources EXCEPT !.unicode_order_file = Append(@, OrderFiles[o.k])]
                 ELSE IF o.opt = "character_list_file"
                 THEN [sources EXCEPT !.character_list_file = Append(@, ListFiles[o.k])]
                 ELSE IF o.opt = "include_blocks"
                 THEN [sources EXCEPT !.include_blocks = BlockLists[o.k]]
                 ELSE [sources EXCEPT !.auto_order_from_corpus = Corpora[o.k]],
                 Tail(opts))

\* The font of the end-to-end scenario: U+0041-005A and U+4E00-4E10.
ScenarioFont == (65..90) \cup (19968..19984)

InitCli ==
    /\ IdlePartition /\ IdleRanges /\ IdleMerge /\ IdleCorpus /\ IdleGui
    /\ pc = "call_main"
    /\ input_font_exists \in BOOLEAN
    /\ font_chars = ScenarioFont
    /\ preferred_order = <<>>
    /\ arg_num_chunks \in {0, 2}
    /\ chars_per_chunk \in {0, 5}
    /\ available_chars = <<>> /\ char_chunks = <<>> /\ subset_i = 0
    /\ success_count = 0 /\ mapping = <<>> /\ ret = FALSE
    /\ attempted = <<>> /\ created_chunks = <<>> /\ subset_info_list = <<>>
    /\ io_before_loop = <<>>
    /\ args \in {[language |-> l, sources |-> ParseArgs(NoSources, opts)] :
                    l \in {"", "zh", "ja", "tc"},
                    opts \in SeqsUpTo(1..Len(CliOptions), MaxSources)}
    /\ exit_status = 0 - 1
    /\ split_calls = 0

\* sys.exit(status), or the end of main (status 0).
MainExit(status) ==
    /\ pc' = "exited"
    /\ exit_status' = status

\* Main without the test of lines 468-470.
MainWithoutEmptyCheck ==
    /\ pc = "call_main"
    /\ IF ~input_font_exists
       THEN MainExit(1) /\ UNCHANGED <<preferred_order, split_calls>>
       ELSE /\ preferred_order' = PreferredOrderChars(args)
            /\ split_calls' = split_calls + 1
            /\ pc' = "call_split_font"
            /\ UNCHANGED exit_status
    /\ UNCHANGED <<args, input_font_exists, font_chars, arg_num_chunks, chars_per_chunk,
                   available_chars, char_chunks, subset_i, success_count, mapping, ret,
                   attempted, created_chunks, subset_info_list, io_before_loop,
                   notMain>>

\* Lines 383-491: main up to its call of split_font; preferred_order is
\* preferred_order_chars as merged at line 465. An os.makedirs that raises
\* (line 475) ends the process with a traceback and status 1.
Main ==
    /\ pc = "call_main"
    /\ IF ~input_font_exists
       THEN MainExit(1) /\ UNCHANGED <<preferred_order, split_calls>>
       ELSE /\ preferred_order' = PreferredOrderChars(args)
            /\ IF PreferredOrderChars(args) = <<>>
               THEN MainExit(1) /\ UNCHANGED split_calls
               ELSE \E makedirs_ok \in BOOLEAN :
                        IF ~makedirs_ok
                        THEN MainExit(1) /\ UNCHANGED split_calls
                        ELSE /\ split_calls' = split_calls + 1
                             /\ pc' = "call_split_font"
                             /\ UNCHANGED exit_status
    /\ UNCHANGED <<args, input_font_exists, font_chars, arg_num_chunks, chars_per_chunk,
                   available_chars, char_chunks, subset_i, success_count, mapping, ret,
                   attempted, created_chunks, subset_info_list, io_before_loop,
                   notMain>>

\* Lines 492-499: the status after split_font has returned.
MainAfterSplit ==
    /\ pc = "done_split_font"
    /\ MainExit(IF ret THEN 0 ELSE 1)
    /\ UNCHANGED <<args, split_calls, splitVars, notMain>>

NextCli == Main \/ SplitFontBegin \/ CreateFontSubset \/ WriteMappingFile \/ MainAfterSplit

SpecCli == InitCli /\ [][NextCli]_vars

(***************************************************************************)
(* Claims about main and the runs it starts (under SpecCli)                *)
(***************************************************************************)
\* The command line of the scenario: the order file listing
\* U+4E00-4E05,U+0041-0042 and nothing else, with --num-chunks 2.
IsScenario ==
    /\ args = [language |-> "",
               sources |-> [NoSources EXCEPT !.unicode_order_file = <<OrderFiles[1]>>]]
    /\ font_chars = ScenarioFont
    /\ arg_num_chunks = 2
    /\ chars_per_chunk = 0

\* C15: end to end, with a font holding 0x41..0x5A and 0x4E00..0x4E10, the
\* order parsed from 'U+4E00-4E05,U+0041-0042' and num_chunks = 2, the
\* filtered order is 0x4E00..0x4E05, 0x41, 0x42 (8 characters), the two chunks
\* have 4 characters each, the ranges of chunk 1 are 'U+4e00-4e03' and those
\* of chunk 2 'U+4e04-4e05,U+41-42'.
C15_EndToEnd ==
    (IsScenario /\ subset_i >= 1) =>
        /\ preferred_order = <<19968, 19969, 19970, 19971, 19972, 19973, 65, 66>>
        /\ available_chars = <<19968, 19969, 19970, 19971, 19972, 19973, 65, 66>>
        /\ Len(char_chunks) = 2
        /\ Len(char_chunks[1]) = 4 /\ Len(char_chunks[2]) = 4
        /\ JoinComma(MappingEntry(char_chunks, 1).unicode_ranges)
               = <<"U", "+", "4", "e", "0", "0", "-", "4", "e", "0", "3">>
        /\ JoinComma(MappingEntry(char_chunks, 2).unicode_ranges)
               = <<"U", "+", "4", "e", "0", "4", "-", "4", "e", "0", "5", ",", "U", "+", "4", "1", "-", "4", "2">>
        /\ \A k \in DOMAIN mapping : mapping[k] = MappingEntry(char_chunks, k)

\* The scenario run to its end: both subsets created, the mapping file written.
C15_Witness ==
    /\ IsScenario
    /\ pc = "exited" /\ exit_status = 0
    /\ success_count = 2
    /\ Len(mapping) = 2
    /\ mapping[2].unicode_ranges = <<<<"U", "+", "4", "e", "0", "4", "-", "4", "e", "0", "5">>, <<"U", "+", "4", "1", "-", "4", "2">>>>

\* C19: the command line exits with a status other than 0 whenever the order
\* merged from all the sources is empty, and whenever the font path does not
\* exist; in both cases split_font is never called.
C19_ExitsWithoutSplitting ==
    (~input_font_exists \/ PreferredOrderChars(args) = <<>>) =>
        /\ split_calls = 0
        /\ pc \in {"call_main", "exited"}
        /\ pc = "exited" => exit_status # 0

\* An existing font with sources that all come to nothing: an order file that
\* cannot be read, and --include-blocks, which --language zh does not read.
C19_Witness ==
    /\ pc = "exited" /\ exit_status = 1 /\ split_calls = 0
    /\ input_font_exists
    /\ args.language = "zh"
    /\ args.sources.unicode_order_file = <<OrderFiles[3]>>
    /\ args.sources.include_blocks = <<"jp-basic">>

(***************************************************************************)
(* parse_unicode_order_file on its own (SpecOrderFile)                     *)
(***************************************************************************)
InitOrderFile ==
    /\ IdlePartition /\ IdleMerge /\ IdleSplit /\ IdleCorpus /\ IdleMain /\ IdleGui
    /\ pc = "call_parse_order_file"
    /\ range_items \in SeqsUpTo(0..Len(RangeItems), MaxItems)
    /\ order_file \in {[readable |-> r, content |-> RangeText(range_items)] : r \in BOOLEAN}
    /\ order_chars = <<>>
    /\ codepoints = <<>> /\ ranges = <<>> /\ text = <<>> /\ parsed = <<>>

ParseUnicodeOrderFile ==
    /\ pc = "call_parse_order_file"
    /\ order_chars' = parse_unicode_order_file(order_file)
    /\ pc' = "parsed_order_file"
    /\ UNCHANGED <<codepoints, ranges, text, parsed, range_items, order_file, notRanges>>

NextOrderFile == ParseUnicodeOrderFile

SpecOrderFile == InitOrderFile /\ [][NextOrderFile]_vars

\* A codepoint that is a character: not a surrogate, not above 0x10FFFF.
IsValidCharacter(cp) == cp <= 1114111 /\ ~(55296 <= cp /\ cp <= 57343)

\* C21: parse_unicode_order_file drops every codepoint that is not a valid
\* character, namely the surrogates 0xD800..0xDFFF and the codepoints above
\* 0x10FFFF, without failing, and returns the other parsed codepoints in order.
C21_InvalidCodepointsDropped ==
    (pc = "parsed_order_file" /\ order_file.readable) =>
        order_chars = SelectSeq(parse_unicode_ranges_from_text(order_file.content),
                                IsValidCharacter)

(***************************************************************************)
(* Failed sources (under SpecCorpus)                                       *)
(***************************************************************************)
\* The characters of the files that are read to their end.
RECURSIVE FullyRead(_)
FullyRead(files) ==
    IF files = <<>> THEN <<>>
    ELSE (IF Head(files).delivered = Len(Head(files).content)
          THEN Head(files).content ELSE <<>>) \o FullyRead(Tail(files))

\* C22: a source whose read or decode fails contributes nothing and the other
\* sources are still processed: build_order_from_corpus adds no counts and no
\* first-seen positions from a failed file, also when the failure happens
\* part-way through the file, and still counts every later file.
C22_FailedFileContributesNothing ==
    pc = "built_order" =>
        LET read == FullyRead(corpus)
        IN  /\ Range(corpus_order) = {ch \in Range(read) : ch > 31}
            /\ \A a, b \in DOMAIN corpus_order :
                   a < b =>
                       \/ Occurrences(read, corpus_order[a]) > Occurrences(read, corpus_order[b])
                       \/ /\ Occurrences(read, corpus_order[a])
                                 = Occurrences(read, corpus_order[b])
                          /\ FirstIndex(read, corpus_order[a]) < FirstIndex(read, corpus_order[b])

(***************************************************************************)
(* The mapping file of split_font                                          *)
(***************************************************************************)
\* C23: the recorded per-chunk output of a split run contains exactly the
\* chunks whose subsetting succeeded, in increasing index order, the entry
\* with index i carrying the characters, the character count and the
\* unicode-range tokens of the i-th chunk of the partition; a chunk whose
\* subsetting failed is not listed. (Stated for the runs that return True,
\* whose mapping file was written to its end.)
C23_MappingListsCreatedChunks ==
    (pc = "done_split_font" /\ ret) =>
        mapping = [k \in 1..Len(created_chunks) |->
                       MappingEntry(char_chunks, created_chunks[k])]

(***************************************************************************)
(* Configuration errors of split_font (under SpecSplit)                    *)
(***************************************************************************)
\* A configuration error: an empty or missing preferred_order, or a
\* num_chunks <= 0 without a positive chars_per_chunk.
ConfigurationError ==
    \/ preferred_order = <<>>
    \/ arg_num_chunks <= 0 /\ chars_per_chunk <= 0

\* C24: a configuration error given to split_font aborts the run with a
\* failure result before any font I/O happens: the font file is neither
\* analysed nor subsetted and no output is written.
C24_ConfigurationErrorBeforeFontIO ==
    (pc = "done_split_font" /\ ConfigurationError) =>
        /\ ret = FALSE
        /\ io_before_loop = <<>>
        /\ attempted = <<>> /\ mapping = <<>>

(***************************************************************************)
(* Claims about the order main merges from its sources (under SpecCli)     *)
(***************************************************************************)
\* Neither --unicode-order-file nor --character-list-file is given.
NoOrderFileGiven ==
    args.sources.unicode_order_file = <<>> /\ args.sources.character_list_file = <<>>

\* The characters of a preset block, and the printable characters of the
\* corpus given on the command line.
PresetChars(key) ==
    UNION {PRESET_BLOCKS[key][i][1]..PRESET_BLOCKS[key][i][2] : i \in DOMAIN PRESET_BLOCKS[key]}
CorpusChars == {ch \in Range(Delivered(args.sources.auto_order_from_corpus)) : ch > 31}

\* main has merged its sources (the font exists, line 465 is passed).
OrderMerged == pc # "call_main" /\ input_font_exists

OrderWithoutCorpus ==
    PreferredOrderChars([args EXCEPT !.sources.auto_order_from_corpus = <<>>])

\* C26: with --auto-order-from-corpus the corpus order is appended to the end
\* of the merged order: the characters of the order files, character-list
\* files and preset blocks keep their positions, and the corpus characters
\* not among them follow.
C26_CorpusAppendedAtEnd ==
    OrderMerged =>
        LET n == Len(OrderWithoutCorpus)
        IN  /\ Len(preferred_order) >= n
            /\ SubSeq(preferred_order, 1, n) = OrderWithoutCorpus
            /\ \A k \in (n + 1)..Len(preferred_order) :
                   /\ preferred_order[k] \in CorpusChars
                   /\ preferred_order[k] \notin Range(OrderWithoutCorpus)

(***************************************************************************)
(* Claims about the chunks of split_font (under SpecSplit)                 *)
(***************************************************************************)
\* C27: whatever preferred_order split_font is called with, repeated
\* characters included, no character occurs twice in a chunk and no character
\* occurs in two chunks.
C27_ChunksPairwiseDisjoint ==
    \A i, j \in DOMAIN char_chunks :
        \A a \in DOMAIN char_chunks[i], b \in DOMAIN char_chunks[j] :
            (i # j \/ a # b) => char_chunks[i][a] # char_chunks[j][b]

(***************************************************************************)
(* The GUI Api of src/src/app.py (SpecApi): every call from the page runs  *)
(* in a thread of its own, all on the one Api object. A thread is at       *)
(* "called" before its first statement, at "checked" after it has read     *)
(* is_processing as False, at "executing" while its task runs, at          *)
(* "cancelling" between the test and the assignments of cancel_processing, *)
(* and at "returned" with its result.                                      *)
(***************************************************************************)
Threads == 1..NumThreads

TaskMethods ==
    {"split_font_and_generate_css", "split_font_and_generate_css_with_file",
     "start_conversion", "start_conversion_with_file"}

\* The calls made: the method and whether its arguments pass the checks made
\* before the task starts (a path, a supported extension, decodable data).
ApiCalls ==
    {[method |-> m, valid |-> v, pc |-> "called", result |-> "", arrived_during_task |-> FALSE] :
        m \in TaskMethods, v \in BOOLEAN}
    \cup {[method |-> "cancel_processing", valid |-> TRUE, pc |-> "called", result |-> "",
           arrived_during_task |-> FALSE]}

InitApi ==
    /\ IdlePartition /\ IdleRanges /\ IdleMerge /\ IdleSplit /\ IdleCorpus /\ IdleMain
    /\ IdleProgress /\ IdleConvert
    /\ pc = "api"
    /\ is_processing = FALSE
    /\ current_task = ""
    /\ api_threads \in [Threads -> ApiCalls]

\* The other threads' tasks under way.
ExecutingBesides(t) == {u \in Threads \ {t} : api_threads[u].pc = "executing"}

ApiUnchanged ==
    UNCHANGED <<pc, partitionVars, rangeVars, mergeVars, splitVars, corpusVars, mainVars,
                progressVars, convertVars>>

\* Lines 218-219 (279-280, 539-540, 609-610): the test of is_processing.
CheckProcessing(t) ==
    /\ api_threads[t].pc = "called"
    /\ api_threads[t].method \in TaskMethods
    /\ api_threads' =
           [api_threads EXCEPT
               ![t].arrived_during_task = ExecutingBesides(t) # {},
               ![t].pc = IF is_processing THEN "returned" ELSE "checked",
               ![t].result = IF is_processing THEN "busy" ELSE ""]
    /\ UNCHANGED <<is_processing, current_task>>
    /\ ApiUnchanged

\* Lines 221-233 (282-316, 542-594 and 644-648, 612-648): the checks of the
\* arguments, which return without touching the flag, and the assignments
\* self.is_processing = True, self.current_task = ...
BeginTask(t) ==
    /\ api_threads[t].pc = "checked"
    /\ IF api_threads[t].valid
       THEN /\ is_processing' = TRUE
            /\ current_task' = api_threads[t].method
            /\ api_threads' = [api_threads EXCEPT ![t].pc = "executing"]
       ELSE /\ api_threads' = [api_threads EXCEPT ![t].pc = "returned", ![t].result = "invalid"]
            /\ UNCHANGED <<is_processing, current_task>>
    /\ ApiUnchanged

\* Lines 235-275 (318-402, 650-710): the task ends, well or not, and the
\* finally clause clears the flag.
FinishTask(t) ==
    /\ api_threads[t].pc = "executing"
    /\ \E outcome \in {"success", "failure"} :
           api_threads' = [api_threads EXCEPT ![t].pc = "returned", ![t].result = outcome]
    /\ is_processing' = FALSE
    /\ current_task' = ""
    /\ ApiUnchanged

\* cancel_processing, line 417: the test.
CancelCheck(t) ==
    /\ api_threads[t].pc = "called"
    /\ api_threads[t].method = "cancel_processing"
    /\ api_threads' =
           [api_threads EXCEPT
               ![t].pc = IF is_processing THEN "cancelling" ELSE "returned",
               ![t].result = IF is_processing THEN "" ELSE "nothing_to_cancel"]
    /\ UNCHANGED <<is_processing, current_task>>
    /\ ApiUnchanged

\* cancel_processing, lines 418-420: the flag is cleared; the task itself is
\* not told.
CancelClear(t) ==
    /\ api_threads[t].pc = "cancelling"
    /\ is_processing' = FALSE
    /\ current_task' = ""
    /\ api_threads' = [api_threads EXCEPT ![t].pc = "returned", ![t].result = "cancelled"]
    /\ ApiUnchanged

NextApi ==
    \E t \in Threads :
        \/ CheckProcessing(t)
        \/ BeginTask(t)
        \/ FinishTask(t)
        \/ CancelCheck(t)
        \/ CancelClear(t)

SpecApi == InitApi /\ [][NextApi]_vars

\* C28: is_processing enforces mutual exclusion: under every interleaving of
\* the calls at most one task is executing, and a call that arrived while a
\* task was executing is rejected with the busy result.
C28_MutualExclusion ==
    /\ Cardinality({t \in DOMAIN api_threads : api_threads[t].pc = "executing"}) <= 1
    /\ \A t \in DOMAIN api_threads :
           (api_threads[t].arrived_during_task /\ api_threads[t].pc # "called")
               => api_threads[t].result = "busy"

(***************************************************************************)
(* FontConverterAPI.split_font_and_generate_css of src/src/font_trans.py   *)
(* with its progress state (SpecProgress). preferred_order is ordered_chars,*)
(* the characters of the language's order file.                            *)
(***************************************************************************)
InitProgress ==
    /\ IdlePartition /\ IdleRanges /\ IdleMerge /\ IdleCorpus /\ IdleMain
    /\ IdleApi /\ IdleConvert
    /\ pc = "call_split_with_progress"
    /\ current_progress = InitialProgress
    /\ input_font_exists \in BOOLEAN
    /\ font_chars \in FontInventories
    /\ preferred_order \in SeqsUpTo(SplitAlphabet, MaxPreferred)
    /\ arg_num_chunks \in (0 - 1)..MaxSplitChunks
    /\ chars_per_chunk = 0
    /\ available_chars = <<>> /\ char_chunks = <<>> /\ subset_i = 0
    /\ success_count = 0 /\ mapping = <<>> /\ ret = FALSE
    /\ attempted = <<>> /\ created_chunks = <<>> /\ subset_info_list = <<>>
    /\ io_before_loop = <<>>

\* update_progress, lines 74-76: the keys given replace the values held.
update_progress(progress, updates) ==
    [key \in DOMAIN progress |->
        IF key \in DOMAIN updates THEN updates[key] ELSE progress[key]]

ProgressReturn(value) ==
    /\ pc' = "done_split_with_progress"
    /\ ret' = value

ProgressUnchanged ==
    UNCHANGED <<partitionVars, rangeVars, mergeVars, corpusVars, mainVars, apiVars,
                convertVars>>

\* Lines 618-697: the checks, the analysis, the filter and the partition, with
\* their returns, then the first update of the progress. An exception
\* (os.makedirs, the ValueError of the partitioner) is caught at line 804.
SplitWithProgressBegin ==
    /\ pc = "call_split_with_progress"
    /\ \E makedirs_ok, unicode_file_exists \in BOOLEAN :
        /\ io_before_loop' =
               IF ~input_font_exists \/ ~makedirs_ok THEN <<>>
               ELSE <<"makedirs", "analyze_font_characters">>
        /\ IF \/ ~input_font_exists \/ ~makedirs_ok \/ font_chars = {}
              \/ ~unicode_file_exists
           THEN /\ ProgressReturn(FALSE)
                /\ UNCHANGED <<available_chars, char_chunks, subset_i, success_count,
                               current_progress>>
           ELSE LET available == filter_available_chars(font_chars, preferred_order)
                    r         == split_characters_into_chunks(available, arg_num_chunks)
                IN  /\ available_chars' = available
                    /\ IF available = <<>> \/ r.raised
                       THEN /\ ProgressReturn(FALSE)
                            /\ UNCHANGED <<char_chunks, subset_i, success_count,
                                           current_progress>>
                       ELSE /\ char_chunks' = r.chunks
                            /\ subset_i' = 1
                            /\ success_count' = 0
                            /\ current_progress' =
                                   update_progress(current_progress,
                                       [is_running |-> TRUE, step |-> "splitting",
                                        current |-> 0, total |-> Len(r.chunks)])
                            /\ pc' = "progress_loop"
                            /\ ret' = ret
    /\ UNCHANGED <<splitArgs, mapping, attempted, created_chunks, subset_info_list>>
    /\ ProgressUnchanged

\* Lines 699-771, one iteration. create_font_subset_in_memory gives the bytes
\* of the subset or None (it catches its own exceptions); an upload that fails
\* is caught at line 724; convert_subset_bytes_to_formats loads the bytes with
\* TTFont outside any try (line 222): when that raises, the exception is
\* caught at line 804 and the function returns.
SubsetInMemoryAndReport ==
    /\ pc = "progress_loop"
    /\ subset_i <= Len(char_chunks)
    /\ attempted' = Append(attempted, subset_i)
    /\ \E outcome \in {"created", "none", "convert_raised"} :
           IF outcome = "created"
           THEN /\ success_count' = success_count + 1
                /\ created_chunks' = Append(created_chunks, subset_i)
                /\ current_progress' =
                       update_progress(current_progress,
                           [current |-> subset_i, total |-> Len(char_chunks)])
                /\ subset_info_list' =
                       Append(subset_info_list, MappingEntry(char_chunks, subset_i))
                /\ subset_i' = subset_i + 1
                /\ UNCHANGED <<pc, ret>>
           ELSE IF outcome = "none"
           THEN /\ subset_i' = subset_i + 1
                /\ UNCHANGED <<pc, ret, success_count, created_chunks, current_progress,
                               subset_info_list>>
           ELSE /\ success_count' = success_count + 1
                /\ ProgressReturn(FALSE)
                /\ UNCHANGED <<subset_i, created_chunks, current_progress,
                               subset_info_list>>
    /\ UNCHANGED <<splitArgs, available_chars, char_chunks, mapping, io_before_loop>>
    /\ ProgressUnchanged

\* Lines 773-802: the progress is set to completed, then the CSS file is
\* generated and its result returned.
CompleteAndGenerateCss ==
    /\ pc = "progress_loop"
    /\ subset_i > Len(char_chunks)
    /\ current_progress' =
           update_progress(current_progress,
               [is_running |-> FALSE, step |-> "completed",
                current |-> Len(char_chunks), total |-> Len(char_chunks)])
    /\ \E css_written \in BOOLEAN : ProgressReturn(css_written)
    /\ UNCHANGED <<splitArgs, available_chars, char_chunks, subset_i, success_count,
                   mapping, attempted, created_chunks, subset_info_list, io_before_loop>>
    /\ ProgressUnchanged

NextProgress == SplitWithProgressBegin \/ SubsetInMemoryAndReport \/ CompleteAndGenerateCss

SpecProgress == InitProgress /\ [][NextProgress]_vars

\* C29: whenever split_font_and_generate_css has returned, on success, on a
\* failed CSS generation and on an exception inside the chunk loop, the
\* progress has is_running = False; and 0 <= current <= total in every
\* progress state.
C29_ProgressStoppedOnReturn ==
    /\ pc = "done_split_with_progress" => ~current_progress.is_running
    /\ 0 <= current_progress.current
    /\ current_progress.current <= current_progress.total

(***************************************************************************)
(* FontConverterAPI.start_conversion and convert_subset_bytes_to_formats   *)
(* (SpecConvert). A font object is its flavor: "none" for None, "woff",    *)
(* "woff2"; TTFont gives the object the flavor of the file or bytes it     *)
(* loads, and save encodes the file in the flavor the object has. A weight *)
(* of 0 is None.                                                           *)
(***************************************************************************)
Flavors == {"none", "woff", "woff2"}
Formats == {"woff2", "woff", "ttf"}
Weights == {400, 700}

InitConvert ==
    /\ IdlePartition /\ IdleRanges /\ IdleMerge /\ IdleCorpus /\ IdleMain
    /\ IdleApi /\ IdleProgress
    /\ pc \in {"call_start_conversion", "call_convert_subset_bytes"}
    /\ input_font_exists \in BOOLEAN
    /\ font_chars = {} /\ preferred_order = <<>>
    /\ arg_num_chunks = 0 /\ chars_per_chunk = 0
    /\ available_chars = <<>> /\ char_chunks = <<>> /\ subset_i = 0
    /\ success_count = 0 /\ mapping = <<>> /\ ret = FALSE
    /\ attempted = <<>> /\ created_chunks = <<>> /\ subset_info_list = <<>>
    /\ io_before_loop = <<>>
    /\ input_flavor \in Flavors
    /\ weights \in IF pc = "call_start_conversion"
                   THEN SeqsUpTo(Weights, MaxWeights) ELSE {<<>>}
    /\ output_formats \in IF pc = "call_start_conversion"
                          THEN SeqsUpTo(Formats, MaxFormats) ELSE {<<>>}
    /\ weight_i = 0 /\ format_i = 0
    /\ font_to_convert = [flavor |-> "none"]
    /\ converted_paths = <<>>

ConvertUnchanged ==
    UNCHANGED <<input_font_exists, font_chars, preferred_order, arg_num_chunks,
                chars_per_chunk, available_chars, char_chunks, subset_i, success_count,
                mapping, attempted, created_chunks, subset_info_list, io_before_loop,
                partitionVars, rangeVars, mergeVars, corpusVars, mainVars, apiVars,
                progressVars, input_flavor>>

\* A return of start_conversion: success (lines 864-869) or, from the test of
\* line 819 and the except of lines 871-875, failure.
ConversionReturn(value) ==
    /\ pc' = "done_start_conversion"
    /\ ret' = value

\* Lines 818-827: the test of the path and the defaults of the arguments.
StartConversionBegin ==
    /\ pc = "call_start_conversion"
    /\ IF ~input_font_exists
       THEN /\ ConversionReturn(FALSE)
            /\ UNCHANGED <<weights, output_formats, weight_i>>
       ELSE /\ output_formats' = IF output_formats = <<>> THEN <<"woff2">> ELSE output_formats
            /\ weights' = IF weights = <<>> THEN <<0>> ELSE weights
            /\ weight_i' = 1
            /\ pc' = "weights_loop"
            /\ ret' = ret
    /\ UNCHANGED <<format_i, font_to_convert, converted_paths>>
    /\ ConvertUnchanged

\* Lines 829-847, for one weight: a new font object loaded from input_path,
\* instantiated and subsetted. An exception ends the call (line 871).
LoadFontToConvert ==
    /\ pc = "weights_loop"
    /\ weight_i <= Len(weights)
    /\ \E loaded \in BOOLEAN :
           IF loaded
           THEN /\ font_to_convert' = [flavor |-> input_flavor]
                /\ format_i' = 1
                /\ pc' = "formats_loop"
                /\ ret' = ret
           ELSE /\ ConversionReturn(FALSE)
                /\ UNCHANGED <<font_to_convert, format_i>>
    /\ UNCHANGED <<weights, output_formats, weight_i, converted_paths>>
    /\ ConvertUnchanged

\* Lines 849-862, for one format: the flavor is assigned for woff and woff2
\* only, then the font object is saved.
SaveFormat ==
    /\ pc = "formats_loop"
    /\ format_i <= Len(output_formats)
    /\ LET format == output_formats[format_i]
           flavor == IF format \in {"woff", "woff2"} THEN format ELSE font_to_convert.flavor
       IN  /\ font_to_convert' = [flavor |-> flavor]
           /\ \E saved \in BOOLEAN :
                  IF saved
                  THEN /\ converted_paths' =
                              Append(converted_paths,
                                     [format |-> format, weight |-> weights[weight_i],
                                      flavor |-> flavor])
                       /\ format_i' = format_i + 1
                       /\ UNCHANGED <<pc, ret>>
                  ELSE /\ ConversionReturn(FALSE)
                       /\ UNCHANGED <<converted_paths, format_i>>
    /\ UNCHANGED <<weights, output_formats, weight_i>>
    /\ ConvertUnchanged

\* The end of the loop over the formats: the next weight.
NextWeight ==
    /\ pc = "formats_loop"
    /\ format_i > Len(output_formats)
    /\ weight_i' = weight_i + 1
    /\ pc' = "weights_loop"
    /\ UNCHANGED <<ret, weights, output_formats, format_i, font_to_convert, converted_paths>>
    /\ ConvertUnchanged

\* Lines 864-869: every weight is done.
ConversionDone ==
    /\ pc = "weights_loop"
    /\ weight_i > Len(weights)
    /\ ConversionReturn(TRUE)
    /\ UNCHANGED <<weights, output_formats, weight_i, format_i, font_to_convert,
                   converted_paths>>
    /\ ConvertUnchanged

\* convert_subset_bytes_to_formats, src/src/font_trans.py lines 215-247:
\* 'ttf' is the bytes given, as they are; woff2 and woff are saved from one
\* font object after their flavor is assigned, each unless its save raises.
\* TTFont raising at line 222 leaves nothing.
ConvertSubsetBytesToFormats ==
    /\ pc = "call_convert_subset_bytes"
    /\ \E loaded, woff2_saved, woff_saved \in BOOLEAN :
           IF ~loaded
           THEN UNCHANGED <<font_to_convert, converted_paths>>
           ELSE /\ font_to_convert' =
                       [flavor |-> IF woff_saved THEN "woff"
                                   ELSE IF woff2_saved THEN "woff2" ELSE input_flavor]
                /\ converted_paths' =
                       <<[format |-> "ttf", weight |-> 0, flavor |-> input_flavor]>>
                       \o (IF woff2_saved
                           THEN <<[format |-> "woff2", weight |-> 0, flavor |-> "woff2"]>>
                           ELSE <<>>)
                       \o (IF woff_saved
                           THEN <<[format |-> "woff", weight |-> 0, flavor |-> "woff"]>>
                           ELSE <<>>)
    /\ pc' = "done_convert_subset_bytes"
    /\ UNCHANGED <<ret, weights, output_formats, weight_i, format_i>>
    /\ ConvertUnchanged

NextConvert ==
    \/ StartConversionBegin
    \/ LoadFontToConvert
    \/ SaveFormat
    \/ NextWeight
    \/ ConversionDone
    \/ ConvertSubsetBytesToFormats

SpecConvert == InitConvert /\ [][NextConvert]_vars

\* The flavor a format is to be encoded in.
FlavorOf(format) == IF format \in {"woff", "woff2"} THEN format ELSE "none"

\* C30: every file produced is encoded in the flavor of its own format (woff2
\* as woff2, woff as woff, any other format with no web flavor), for every
\* list and order of formats and weights.
C30_EachFormatItsOwnFlavor ==
    \A k \in DOMAIN converted_paths :
        converted_paths[k].flavor = FlavorOf(converted_paths[k].format)

=============================================================================
